---- MODULE Spec2Model ----
(***************************************************************************)
(* mog-ux: the Brain Worker (event queue, diagnosis, curation, parallel    *)
(* enrichment, cancellation), the Playbook merge engine and its file, the  *)
(* Sensing Pipeline (sentiment analysis, friction threshold), the Progress *)
(* Bus, benchmark research, and the playbook endpoints.                    *)
(*                                                                         *)
(* A Python str is a sequence of one-character strings, so that split(),   *)
(* lower(), len(), "in" and "+=" are computed and not assumed.             *)
(***************************************************************************)
EXTENDS Integers, Sequences, FiniteSets, TLC

VARIABLES
    pbFile,      \* playbook.json: <<>> while it does not exist, else <<Playbook>>
    clock,       \* logical time: the number of operations that saved the playbook
    merged,      \* history: the bullets add_or_merge_bullet merged and saved
    queue,       \* event_queue: the FrictionEvents waiting
    unfinished,  \* event_queue's count of unfinished tasks
    pc,          \* where brain_pipeline is suspended
    cur,         \* the event brain_pipeline holds (NoEvent outside an iteration)
    insight,     \* the Insight reflect returned for cur
    pbAtGet,     \* history: playbook.json as it was when cur was dequeued
    tasks,       \* the state of do_mockup, do_benchmarks, do_memory for cur
    status,      \* history: per event, how far its processing got
    enqLog,      \* history: event ids in the order they were put
    deqLog,      \* history: event ids in the order they were got
    apiKey,      \* YUTORI_API_KEY is configured
    sense,       \* process_all / process_upload: where it is and what it holds
    tmpFile,     \* playbook.json.tmp: <<>> absent, <<pb, n>> the first n parts of pb
    saveSt,      \* the save_playbook call in progress: <<>> or <<playbook>>
    bus,         \* progress.py: _subscribers, their queues, what was published
    research,    \* one search_benchmarks call: where it is and what it holds
    curation     \* the playbook operation in progress, and those of the endpoints

vars == <<pbFile, clock, merged, queue, unfinished, pc, cur, insight, pbAtGet,
          tasks, status, enqLog, deqLog, apiKey, sense, tmpFile, saveSt, bus, research,
          curation>>

pbVars == <<pbFile, clock, merged>>

otherVars == <<sense, tmpFile, saveSt, bus, research, curation>>

workerVars == <<queue, unfinished, pc, cur, insight, pbAtGet, tasks, status, enqLog, deqLog,
                apiKey, otherVars>>

(***************************************************************************)
(* Bounds of the model.                                                    *)
(***************************************************************************)
MaxEvents == 2       \* events put on the queue in one behaviour

MaxMerges == 3       \* playbook operations in one behaviour of SpecMerge

MaxVideos == 2       \* videos of one upload

MaxChunks == 2       \* audio chunks of one upload, all videos together

MaxSubscribers == 2  \* clients of GET /progress in one behaviour

MaxPublish == 2      \* progress events published in one behaviour

MaxReceive == 2      \* progress events one subscriber reads in one behaviour

MaxClears == 1       \* calls of POST /playbook/clear in one behaviour

(***************************************************************************)
(* Strings.                                                                *)
(***************************************************************************)
Range(s) == {s[i] : i \in 1..Len(s)}

UpperToLower ==
    [c \in {"B", "D", "E", "F", "H", "I", "K", "M", "N", "O", "R", "S", "T"} |->
        CASE c = "B" -> "b" [] c = "D" -> "d" [] c = "E" -> "e" [] c = "F" -> "f"
          [] c = "H" -> "h" [] c = "I" -> "i" [] c = "K" -> "k" [] c = "M" -> "m"
          [] c = "N" -> "n" [] c = "O" -> "o" [] c = "R" -> "r" [] c = "S" -> "s"
          [] c = "T" -> "t"]

\* str.lower() over the capital letters the texts of the model contain
LowerChar(c) == IF c \in DOMAIN UpperToLower THEN UpperToLower[c] ELSE c

Lower(w) == [i \in 1..Len(w) |-> LowerChar(w[i])]

\* str.split(): the maximal runs of non-blank characters, in order
RECURSIVE SplitFrom(_, _, _)
SplitFrom(s, i, w) ==
    IF i > Len(s)
    THEN (IF w = <<>> THEN <<>> ELSE <<w>>)
    ELSE IF s[i] = " "
         THEN (IF w = <<>> THEN <<>> ELSE <<w>>) \o SplitFrom(s, i + 1, <<>>)
         ELSE SplitFrom(s, i + 1, Append(w, s[i]))

Split(s) == SplitFrom(s, 1, <<>>)

IsSubstring(a, b) ==
    \E i \in 0..(Len(b) - Len(a)) : SubSeq(b, i + 1, i + Len(a)) = a

EmptyStr == <<>>

\* the words the modelled texts are made of
W_layout == <<"l", "a", "y", "o", "u", "t">>

W_labeling == <<"l", "a", "b", "e", "l", "i", "n", "g">>

W_Menu == <<"M", "e", "n", "u">>

W_menu == <<"m", "e", "n", "u">>

W_hidden == <<"h", "i", "d", "d", "e", "n">>

W_HIDDEN == <<"H", "i", "d", "d", "e", "n">>

W_Tiny == <<"T", "i", "n", "y">>

W_text == <<"t", "e", "x", "t">>

W_Bad == <<"B", "a", "d">>

W_Show == <<"S", "h", "o", "w">>

W_Fix == <<"F", "i", "x", ":">>

W_Benchmark == <<"B", "e", "n", "c", "h", "m", "a", "r", "k", ":">>

W_NNG == <<"N", "N", "G">>

SP == <<" ">>

Sep == <<" ", "|", " ">>

Dash == <<"-">>

Colon == <<":">>

(***************************************************************************)
(* playbook.py                                                             *)
(***************************************************************************)
Absent == <<>>

EmptyPlaybook(now) == [session_id |-> "default", bullets |-> <<>>, last_updated |-> now]

LoadPlaybook(file, now) == IF file = Absent THEN EmptyPlaybook(now) ELSE file[1]

\* save_playbook: the playbook as it stands in playbook.json after the rename
SavePlaybook(pb, now) == [pb EXCEPT !.last_updated = now]

\* _keyword_set, computed
Keywords(text) ==
    LET ws == Split(text)
    IN  {Lower(ws[i]) : i \in {j \in 1..Len(ws) : Len(ws[j]) > 3}}

\* the titles of the modelled inputs: _keyword_set is computed once for each
T_MenuHidden == W_Menu \o SP \o W_hidden

T_menuHIDDEN == W_menu \o SP \o W_HIDDEN

T_TinyText == W_Tiny \o SP \o W_text

T_ShowMenu == W_Show \o SP \o W_menu

T_ShowHiddenMenu == W_Show \o SP \o W_hidden \o SP \o W_menu

RootCauses == {T_MenuHidden, T_menuHIDDEN, T_TinyText, T_MenuHidden \o SP \o W_Bad, W_Bad}

Fixes == {T_ShowMenu, T_ShowHiddenMenu, W_Bad}

Categories == {W_layout, W_labeling}

Sources == {W_NNG}

KnownTitles ==
    RootCauses
    \cup {c \o Colon \o SP \o r : c \in Categories, r \in RootCauses}
    \cup {W_Fix \o SP \o f : f \in Fixes}
    \cup {W_Benchmark \o SP \o c \o SP \o Dash \o SP \o src : c \in Categories, src \in Sources}

KeywordTable == [t \in KnownTitles |-> Keywords(t)]

\* _keyword_set
KeywordSet(text) ==
    IF text \in KnownTitles THEN KeywordTable[text] ELSE Keywords(text)

Min(a, b) == IF a <= b THEN a ELSE b

\* (mutant) the ratio is taken over the keyword set of the first string
KeywordOverlap_FirstDen(a, b) ==
    LET set_a == KeywordSet(a)
        set_b == KeywordSet(b)
    IN  IF set_a = {} \/ set_b = {}
        THEN [num |-> 0, den |-> 1]
        ELSE [num |-> Cardinality(set_a \cap set_b), den |-> Cardinality(set_a)]

\* _keyword_overlap: the ratio as the fraction num / den (0.0 is 0 / 1)
KeywordOverlap(a, b) ==
    LET set_a == KeywordSet(a)
        set_b == KeywordSet(b)
    IN  IF set_a = {} \/ set_b = {}
        THEN [num |-> 0, den |-> 1]
        ELSE [num |-> Cardinality(set_a \cap set_b),
              den |-> Min(Cardinality(set_a), Cardinality(set_b))]

\* (mutant) a ratio of exactly 0.6 matches too
OverThreshold_Inclusive(r) == 5 * r.num >= 3 * r.den

\* ratio > 0.6, in integers: num / den > 3 / 5
OverThreshold(r) == 5 * r.num > 3 * r.den

Matches(bullet, category, title) ==
    /\ bullet.category = category
    /\ OverThreshold(KeywordOverlap(bullet.title, title))

\* (mutant) the loop gives up after the first bullet
FindMatchingBullet_FirstOnly(pb, category, title) ==
    IF Len(pb.bullets) > 0 /\ Matches(pb.bullets[1], category, title) THEN 1 ELSE 0

\* find_matching_bullet: the index of the first matching bullet, 0 for None
FindMatchingBullet(pb, category, title) ==
    LET hits == {i \in 1..Len(pb.bullets) : Matches(pb.bullets[i], category, title)}
    IN  IF hits = {} THEN 0 ELSE CHOOSE i \in hits : \A j \in hits : i <= j

SeverityRank(s) ==
    CASE s = "critical" -> 3
      [] s = "moderate" -> 2
      [] s = "minor" -> 1
      [] OTHER -> 0

\* (mutant) the latest severity wins
MergeSeverity_LatestWins(old, new) == new

MergeSeverity(old, new) == IF SeverityRank(new) > SeverityRank(old) THEN new ELSE old

\* (mutant) the new content is appended in every merge
MergeContent_Always(old, new) == old \o Sep \o new

MergeContent(old, new) == IF ~IsSubstring(new, old) THEN old \o Sep \o new ELSE old

\* (mutant) evidence entries already present are not appended again
MergeEvidence_Dedup(old, new) ==
    old \o SelectSeq(new, LAMBDA e : \A i \in 1..Len(old) : old[i] # e)

MergeEvidence(old, new) == old \o new

\* (mutant) the URL of the latest bullet wins
MergeUrl_LatestWins(old, new) == IF new # EmptyStr THEN new ELSE old

MergeUrl(old, new) == IF new # EmptyStr /\ old = EmptyStr THEN new ELSE old

\* (mutant) a merge leaves the count as it is
MergeInto_SameCount(existing, nb, now) ==
    [existing EXCEPT
        !.evidence = MergeEvidence(existing.evidence, nb.evidence),
        !.severity = MergeSeverity(existing.severity, nb.severity),
        !.updated_at = now,
        !.content = MergeContent(existing.content, nb.content),
        !.frame_url = MergeUrl(existing.frame_url, nb.frame_url),
        !.mockup_url = MergeUrl(existing.mockup_url, nb.mockup_url)]

MergeInto(existing, nb, now) ==
    [existing EXCEPT
        !.friction_count = existing.friction_count + nb.friction_count,
        !.evidence = MergeEvidence(existing.evidence, nb.evidence),
        !.severity = MergeSeverity(existing.severity, nb.severity),
        !.updated_at = now,
        !.content = MergeContent(existing.content, nb.content),
        !.frame_url = MergeUrl(existing.frame_url, nb.frame_url),
        !.mockup_url = MergeUrl(existing.mockup_url, nb.mockup_url)]

\* add_or_merge_bullet up to its save: the playbook object after the merge or append
MergeBullets(pb, nb, now) ==
    LET k == FindMatchingBullet(pb, nb.category, nb.title)
    IN  IF k # 0
        THEN [pb EXCEPT !.bullets[k] = MergeInto(pb.bullets[k], nb, now)]
        ELSE [pb EXCEPT !.bullets = Append(pb.bullets, nb)]

\* add_or_merge_bullet when its save succeeds: the playbook returned and persisted
AddOrMergeBullet(pb, nb, now) == SavePlaybook(MergeBullets(pb, nb, now), now)

(***************************************************************************)
(* curator.py                                                              *)
(***************************************************************************)
\* _make_evidence: the text is determined by these fields of the event
MakeEvidence(ins) ==
    [timestamp |-> ins.friction_event.timestamp,
     quote |-> ins.friction_event.user_quote]

FrictionBullet(ins, frame_url, mockup_url, now) ==
    [id |-> <<now, 1>>,
     bullet_type |-> "friction_log",
     category |-> ins.category,
     title |-> ins.category \o Colon \o SP \o ins.root_cause,
     content |-> ins.root_cause,
     evidence |-> <<MakeEvidence(ins)>>,
     friction_count |-> 1,
     severity |-> ins.severity,
     benchmark_source |-> EmptyStr,
     frame_url |-> frame_url,
     mockup_url |-> mockup_url,
     created_at |-> now,
     updated_at |-> now]

StrategyBullet(ins, frame_url, mockup_url, now) ==
    [id |-> <<now, 2>>,
     bullet_type |-> "hard_strategy",
     category |-> ins.category,
     title |-> W_Fix \o SP \o ins.suggested_fix,
     content |-> ins.suggested_fix,
     evidence |-> <<MakeEvidence(ins)>>,
     friction_count |-> 1,
     severity |-> ins.severity,
     benchmark_source |-> EmptyStr,
     frame_url |-> frame_url,
     mockup_url |-> mockup_url,
     created_at |-> now,
     updated_at |-> now]

BenchmarkBullet(ins, bench, now) ==
    [id |-> <<now, 3>>,
     bullet_type |-> "benchmark",
     category |-> ins.category,
     title |-> W_Benchmark \o SP \o ins.category \o SP \o Dash \o SP \o bench.source,
     content |-> bench.recommendation,
     evidence |-> <<MakeEvidence(ins)>>,
     friction_count |-> 1,
     severity |-> ins.severity,
     benchmark_source |-> bench.source,
     frame_url |-> EmptyStr,
     mockup_url |-> EmptyStr,
     created_at |-> now,
     updated_at |-> now]

\* benchmarks and benchmarks.get("recommendation")
\* (mutant) any non-empty mapping counts, whatever its recommendation
HasRecommendation_AnyMapping(bench) == ~bench.empty

HasRecommendation(bench) == ~bench.empty /\ bench.recommendation # EmptyStr

\* the bullets curate derives from one insight, in the order it merges them
CurateBullets(ins, bench, frame_url, mockup_url, now) ==
    <<FrictionBullet(ins, frame_url, mockup_url, now),
      StrategyBullet(ins, frame_url, mockup_url, now)>>
    \o (IF HasRecommendation(bench) THEN <<BenchmarkBullet(ins, bench, now)>> ELSE <<>>)

RECURSIVE MergeAll(_, _, _, _)
MergeAll(pb, bs, n, now) ==
    IF n = 0 THEN pb
    ELSE AddOrMergeBullet(MergeAll(pb, bs, n - 1, now), bs[n], now)

\* curate, whose failAt-th save raises (0: none does): the file it leaves, the
\* bullets it merged and saved, and whether it raised
Curate(file, ins, bench, frame_url, mockup_url, now, failAt) ==
    LET bs == CurateBullets(ins, bench, frame_url, mockup_url, now)
        raised == failAt \in 1..Len(bs)
        n == IF raised THEN failAt - 1 ELSE Len(bs)
    IN  [file |-> IF n = 0 THEN file
                  ELSE <<MergeAll(LoadPlaybook(file, now), bs, n, now)>>,
         saved |-> SubSeq(bs, 1, n),
         raised |-> raised]

(***************************************************************************)
(* models.py: the values the operations are called with                    *)
(***************************************************************************)
\* extract_frame: the frame file of an event, one per event
FramePath(id) == <<"frame_", ToString(id), ".jpg">>

FrictionEvent(id, quote, frame_path) ==
    [event_id |-> id,
     timestamp |-> id,
     acoustic_data |-> [sentiment |-> "Frustrated", score |-> 85],
     visual_context |-> [detected_element |-> "Menu", page |-> "Home"],
     user_quote |-> quote,
     status |-> "pending_reflection",
     frame_path |-> frame_path]

NoEvent == FrictionEvent(0, "", EmptyStr)

\* what the diagnosis collaborator may answer: root_cause, severity, category, fix
Diagnoses ==
    {[root_cause |-> T_MenuHidden, severity |-> "moderate", category |-> W_layout,
      suggested_fix |-> T_ShowMenu],
     [root_cause |-> T_TinyText, severity |-> "minor", category |-> W_labeling,
      suggested_fix |-> W_Bad]}

Insight(event, d) ==
    [event_id |-> event.event_id,
     friction_event |-> event,
     root_cause |-> d.root_cause,
     severity |-> d.severity,
     category |-> d.category,
     suggested_fix |-> d.suggested_fix]

NoInsight ==
    Insight(NoEvent, [root_cause |-> EmptyStr, severity |-> "", category |-> EmptyStr,
                      suggested_fix |-> EmptyStr])

\* what search_benchmarks may return: {} or source / recommendation / examples
EmptyDict == [empty |-> TRUE, source |-> EmptyStr, recommendation |-> EmptyStr]

BenchResults ==
    {EmptyDict,
     [empty |-> FALSE, source |-> W_NNG, recommendation |-> EmptyStr],
     [empty |-> FALSE, source |-> W_NNG, recommendation |-> T_ShowMenu]}

\* bullets add_or_merge_bullet is called with directly
Bullet(category, title, content, severity, quote) ==
    [id |-> <<0, 0>>,
     bullet_type |-> "friction_log",
     category |-> category,
     title |-> title,
     content |-> content,
     evidence |-> <<[timestamp |-> 0, quote |-> quote]>>,
     friction_count |-> 1,
     severity |-> severity,
     benchmark_source |-> EmptyStr,
     frame_url |-> EmptyStr,
     mockup_url |-> EmptyStr,
     created_at |-> 0,
     updated_at |-> 0]

Candidates ==
    {Bullet(W_layout, T_MenuHidden, T_MenuHidden, "moderate", "api"),
     Bullet(W_layout, T_menuHIDDEN, W_hidden, "critical", "api"),
     Bullet(W_layout, T_MenuHidden \o SP \o W_Bad, W_Bad, "minor", "upload"),
     Bullet(W_labeling, T_MenuHidden, T_MenuHidden, "high", "upload"),
     Bullet(W_layout, W_Bad, W_Bad, "critical", "api")}

(***************************************************************************)
(* progress.py: the values of the Progress Bus.  A payload is identified   *)
(* by its number in publish order.                                         *)
(***************************************************************************)
\* asyncio.Queue(maxsize=256)
QUEUE_MAXSIZE == 256

SubIds == 1..MaxSubscribers

\* no client of GET /progress yet, nothing published
NoSubscribers ==
    [subs |-> <<>>,
     reg |-> {},
     ended |-> {},
     q |-> [id \in SubIds |-> <<>>],
     got |-> [id \in SubIds |-> <<>>],
     since |-> [id \in SubIds |-> 0],
     published |-> 0,
     start |-> 0,
     dropped |-> {}]

\* one client subscribed and has read nothing of the k events published since
Backlog(k) ==
    [NoSubscribers EXCEPT !.subs = <<1>>, !.reg = {1},
                          !.q = [id \in SubIds |-> IF id = 1 THEN [i \in 1..k |-> i] ELSE <<>>],
                          !.published = k, !.start = k]

\* the states of the bus a behaviour starts in
BusStarts == {NoSubscribers, Backlog(QUEUE_MAXSIZE - 1)}

(***************************************************************************)
(* yutori_client.py: a search_benchmarks call that has not started.        *)
(***************************************************************************)
IdleResearch ==
    [pc |-> "idle", key |-> FALSE, calls |-> 0, polls |-> 0, gets |-> 0, first |-> <<>>,
     status |-> <<>>, result |-> <<>>, raised |-> FALSE]

(***************************************************************************)
(* The initial state: no playbook.json yet, an empty queue, the worker     *)
(* created by lifespan and suspended in event_queue.get().                 *)
(***************************************************************************)
\* no curate call is running and no endpoint has been called
IdleCuration ==
    [pc |-> "idle", playbook |-> <<>>, todo |-> <<>>, now |-> 0, clears |-> 0,
     cleared_at |-> 0, read |-> <<>>]

EventIds == 1..MaxEvents

TaskNames == {"mockup", "benchmarks", "memory"}

InitProgram ==
    /\ pbFile = Absent
    /\ clock = 0
    /\ merged = <<>>
    /\ queue = <<>>
    /\ unfinished = 0
    /\ pc = "get"
    /\ cur = NoEvent
    /\ insight = NoInsight
    /\ pbAtGet = Absent
    /\ tasks = [t \in TaskNames |-> "none"]
    /\ status = [e \in EventIds |-> "none"]
    /\ enqLog = <<>>
    /\ deqLog = <<>>
    /\ apiKey \in BOOLEAN
    /\ sense = [pc |-> "idle", key |-> FALSE, plan |-> <<>>, video |-> 0, chunk |-> 0,
                result |-> [sentiment |-> "Neutral", score |-> 0, quote |-> <<>>,
                            timestamp |-> 0, chunk_index |-> 0,
                            voice_features |-> [empty |-> TRUE, utterance_count |-> 0,
                                                dominant_emotion |-> "Neutral",
                                                text_friction_detected |-> FALSE]],
                frame |-> <<>>, log |-> <<>>]
    /\ tmpFile = <<>>
    /\ saveSt = <<>>

Init ==
    InitProgram /\ bus = NoSubscribers /\ research = IdleResearch /\ curation = IdleCuration

(***************************************************************************)
(* SpecMerge: the merge engine called directly, any sequence of            *)
(* add_or_merge_bullet and curate calls from the initial playbook.         *)
(***************************************************************************)
\* add_or_merge_bullet(load_playbook(), nb); a save that raises changes nothing
MergeCall(nb) ==
    /\ clock < MaxMerges
    /\ LET now == clock + 1
           b == [nb EXCEPT !.id = <<now, 1>>, !.created_at = now, !.updated_at = now]
       IN  /\ pbFile' = <<AddOrMergeBullet(LoadPlaybook(pbFile, now), b, now)>>
           /\ clock' = now
           /\ merged' = Append(merged, b)
    /\ UNCHANGED workerVars

\* curate(insight, benchmarks, frame_url, mockup_url)
CurateCall(d, bench, frame_url, failAt) ==
    /\ clock < MaxMerges
    /\ LET now == clock + 1
           ins == Insight(FrictionEvent(1, "api", EmptyStr), d)
           r == Curate(pbFile, ins, bench, frame_url, EmptyStr, now, failAt)
       IN  /\ r.saved # <<>>
           /\ pbFile' = r.file
           /\ clock' = now
           /\ merged' = merged \o r.saved
    /\ UNCHANGED workerVars

\* the diagnoses curate is called with: those of the worker, and one whose
\* suggested fix names the words of its root cause
MergeDiagnoses ==
    Diagnoses
    \cup {[root_cause |-> T_MenuHidden, severity |-> "critical", category |-> W_layout,
           suggested_fix |-> T_ShowHiddenMenu]}

NextMerge ==
    \/ \E nb \in Candidates : MergeCall(nb)
    \/ \E d \in MergeDiagnoses, bench \in BenchResults, failAt \in 0..3 :
          CurateCall(d, bench, EmptyStr, failAt)

InitMerge == Init /\ apiKey = FALSE

SpecMerge == InitMerge /\ [][NextMerge]_vars

\* bullets whose titles resemble one another in part: A and B share nothing, P
\* holds the keywords of both, P and Q share 3 of their 5 keywords
T_Prose == T_MenuHidden \o SP \o T_TinyText \o SP \o W_Show

T_Quote == T_MenuHidden \o SP \o W_Tiny \o SP \o W_layout \o SP \o W_labeling

MatchCandidates ==
    {[Bullet(W_layout, T_MenuHidden, T_MenuHidden, "moderate", "api")
          EXCEPT !.bullet_type = "hard_strategy"],
     Bullet(W_layout, T_TinyText, T_TinyText, "minor", "api"),
     Bullet(W_layout, T_Prose, T_Prose, "critical", "upload"),
     Bullet(W_layout, T_Quote, T_Quote, "minor", "upload"),
     Bullet(W_labeling, T_MenuHidden, T_MenuHidden, "minor", "api")}

NextMatch == \E nb \in MatchCandidates : MergeCall(nb)

\* add_or_merge_bullet called with bullets of partly similar titles
SpecMatch == InitMerge /\ [][NextMatch]_vars

(***************************************************************************)
(* main.py: POST /playbook/clear.  The handler is a coroutine without an   *)
(* await: the event loop runs it from start to end, and only while no      *)
(* other code of the loop is running.                                      *)
(***************************************************************************)
curationFrame == <<queue, unfinished, pc, cur, insight, pbAtGet, tasks, status, enqLog,
                   deqLog, apiKey, sense, tmpFile, saveSt, bus, research>>

\* (mutant) the handler runs in a thread of its own, whatever the loop is doing
ClearPlaybook_InThread ==
    /\ curation.clears < MaxClears
    /\ LET now == clock + 1
       IN  /\ pbFile' = <<SavePlaybook(EmptyPlaybook(EmptyStr), now)>>
           /\ clock' = now
           /\ curation' = [curation EXCEPT !.clears = @ + 1, !.cleared_at = now]
    /\ UNCHANGED <<merged, curationFrame>>

\* save_playbook(Playbook(session_id="default", bullets=[], last_updated=""))
ClearPlaybook ==
    /\ curation.pc = "idle"
    /\ curation.clears < MaxClears
    /\ LET now == clock + 1
       IN  /\ pbFile' = <<SavePlaybook(EmptyPlaybook(EmptyStr), now)>>
           /\ clock' = now
           /\ curation' = [curation EXCEPT !.clears = @ + 1, !.cleared_at = now]
    /\ UNCHANGED <<merged, curationFrame>>

\* GET /playbook and GET /dashboard: load_playbook()
GetPlaybook ==
    /\ curation.pc = "idle"
    /\ curation' = [curation EXCEPT !.read = <<LoadPlaybook(pbFile, clock).bullets>>]
    /\ UNCHANGED <<pbVars, curationFrame>>

(***************************************************************************)
(* SpecShared: the playbook operations of the event loop, curate taken     *)
(* statement by statement.  curate is a plain function called from a       *)
(* coroutine: from load_playbook() to its last save the loop runs nothing  *)
(* else, so the endpoints run only while no curate call is in progress.    *)
(***************************************************************************)
\* curate up to its first add_or_merge_bullet: the playbook is loaded and the
\* bullets are those of the insight
CurateStart(d, bench, frame_url) ==
    /\ curation.pc = "idle"
    /\ clock < MaxMerges
    /\ LET now == clock + 1
           ins == Insight(FrictionEvent(1, "api", EmptyStr), d)
       IN  /\ curation' = [curation EXCEPT
                              !.pc = "merging",
                              !.playbook = <<LoadPlaybook(pbFile, now)>>,
                              !.todo = CurateBullets(ins, bench, frame_url, EmptyStr, now),
                              !.now = now]
           /\ clock' = now
    /\ UNCHANGED <<pbFile, merged, curationFrame>>

\* the next add_or_merge_bullet of the call, on the playbook object it holds
CurateMerge ==
    /\ curation.pc = "merging"
    /\ LET pb == AddOrMergeBullet(curation.playbook[1], Head(curation.todo), curation.now)
           rest == Tail(curation.todo)
       IN  /\ pbFile' = <<pb>>
           /\ merged' = Append(merged, Head(curation.todo))
           /\ curation' = IF rest = <<>>
                          THEN [curation EXCEPT !.pc = "idle", !.playbook = <<>>, !.todo = <<>>]
                          ELSE [curation EXCEPT !.playbook = <<pb>>, !.todo = rest]
    /\ UNCHANGED <<clock, curationFrame>>

\* save_playbook raises in the next add_or_merge_bullet: curate raises
CurateSaveRaises ==
    /\ curation.pc = "merging"
    /\ curation' = [curation EXCEPT !.pc = "idle", !.playbook = <<>>, !.todo = <<>>]
    /\ UNCHANGED <<pbVars, curationFrame>>

NextShared ==
    \/ \E d \in MergeDiagnoses, bench \in BenchResults : CurateStart(d, bench, EmptyStr)
    \/ CurateMerge
    \/ CurateSaveRaises
    \/ ClearPlaybook
    \/ GetPlaybook

SpecShared == InitMerge /\ [][NextShared]_vars

(***************************************************************************)
(* SpecFrame: add_or_merge_bullet called with bullets of one finding that  *)
(* differ in their other fields, and the playbook cleared in between.      *)
(***************************************************************************)
Url(name) == <<"/uploads/", name>>

FrameCandidates ==
    {Bullet(W_layout, T_MenuHidden, T_MenuHidden, "moderate", "api"),
     [Bullet(W_layout, T_MenuHidden, T_MenuHidden, "minor", "upload")
          EXCEPT !.bullet_type = "hard_strategy", !.frame_url = Url("a.jpg"),
                 !.mockup_url = Url("a.png")],
     [Bullet(W_layout, T_menuHIDDEN, W_hidden, "critical", "upload")
          EXCEPT !.bullet_type = "benchmark", !.benchmark_source = W_NNG,
                 !.frame_url = Url("b.jpg"), !.mockup_url = Url("b.png")],
     [Bullet(W_labeling, T_TinyText, T_TinyText, "minor", "upload")
          EXCEPT !.frame_url = Url("b.jpg")]}

NextFrame ==
    \/ \E nb \in FrameCandidates : MergeCall(nb)
    \/ ClearPlaybook

SpecFrame == InitMerge /\ [][NextFrame]_vars

(***************************************************************************)
(* main.py: the Event Queue, the Brain Worker and its shutdown.  Python    *)
(* runs a coroutine without interruption from one await to the next, so    *)
(* each action is the code between two suspension points.                  *)
(***************************************************************************)
\* the producers: the Sensing Pipeline (process_upload, whose events carry the
\* frame it extracted) and the clients of POST /events (events without a frame)
Producers == {"upload", "api"}

ProducedEvent(c, id) ==
    FrictionEvent(id, c, IF c = "upload" THEN FramePath(id) ELSE EmptyStr)

\* os.path.exists(frame_path): the frames extracted by the pipeline are on disk
FileExists(path) == path # EmptyStr

\* frame_url = "/uploads/" + relpath, or "" without an existing frame file
FrameUrl(event) ==
    IF event.frame_path # EmptyStr /\ FileExists(event.frame_path)
    THEN <<"/uploads/">> \o event.frame_path
    ELSE EmptyStr

\* frame_path.replace(".jpg", "_mockup.png") under /uploads/
MockupUrl(event) ==
    <<"/uploads/">> \o
        [i \in 1..Len(event.frame_path) |->
            IF event.frame_path[i] = ".jpg" THEN "_mockup.png" ELSE event.frame_path[i]]

\* update_mockup_url(frame_url, mockup_url), when its save succeeds
UpdateMockupUrl(pb, frame_url, mockup_url, now) ==
    SavePlaybook(
        [pb EXCEPT !.bullets =
            [i \in 1..Len(pb.bullets) |->
                IF pb.bullets[i].frame_url = frame_url
                THEN [pb.bullets[i] EXCEPT !.mockup_url = mockup_url]
                ELSE pb.bullets[i]]],
        now)

\* the states in which an enrichment task has ended
Finished == {"ok", "empty", "failed", "stored_failed", "skipped"}

Failed == {"failed", "stored_failed"}

AllTasks(st) == [t \in TaskNames |-> st]

\* (mutant) the iteration ends without task_done
EndIteration_NoTaskDone ==
    /\ unfinished' = unfinished
    /\ cur' = NoEvent
    /\ insight' = NoInsight
    /\ pbAtGet' = Absent
    /\ tasks' = AllTasks("none")

\* finally: event_queue.task_done(), and the iteration's locals are gone
EndIteration ==
    /\ unfinished' = unfinished - 1
    /\ cur' = NoEvent
    /\ insight' = NoInsight
    /\ pbAtGet' = Absent
    /\ tasks' = AllTasks("none")

\* producer c puts one event: event_queue.put never blocks, the queue is unbounded
Put(c) ==
    /\ Len(enqLog) < MaxEvents
    /\ LET event == ProducedEvent(c, Len(enqLog) + 1)
       IN  /\ queue' = Append(queue, event)
           /\ enqLog' = Append(enqLog, event)
           /\ status' = [status EXCEPT ![event.event_id] = "queued"]
    /\ unfinished' = unfinished + 1
    /\ UNCHANGED <<pbVars, pc, cur, insight, pbAtGet, tasks, deqLog, apiKey, otherVars>>

\* the worker takes event queue[k] and runs up to the await inside reflect(event)
Take(k) ==
    /\ cur' = queue[k]
    /\ deqLog' = Append(deqLog, queue[k].event_id)
    /\ status' = [status EXCEPT ![queue[k].event_id] = "diagnosing"]
    /\ pbAtGet' = pbFile
    /\ insight' = NoInsight
    /\ tasks' = AllTasks("none")
    /\ pc' = "reflect"
    /\ UNCHANGED <<pbVars, unfinished, enqLog, apiKey, otherVars>>

\* (mutant) the worker takes the newest event
WorkerGet_Lifo ==
    /\ pc = "get"
    /\ queue # <<>>
    /\ queue' = SubSeq(queue, 1, Len(queue) - 1)
    /\ Take(Len(queue))

\* (mutant) the worker reads the head of the queue without removing it
WorkerGet_Peek ==
    /\ pc = "get"
    /\ queue # <<>>
    /\ Len(deqLog) < MaxEvents
    /\ queue' = queue
    /\ Take(1)

\* (mutant) the worker does not wait for the enrichment of its event
WorkerGet_NoBarrier ==
    /\ pc \in {"get", "gather"}
    /\ queue # <<>>
    /\ queue' = Tail(queue)
    /\ Take(1)

\* event = await event_queue.get(): FIFO, and only between two iterations
WorkerGet ==
    /\ pc = "get"
    /\ queue # <<>>
    /\ queue' = Tail(queue)
    /\ Take(1)

\* (mutant) an exception of reflect ends the worker
ReflectRaises_KillsWorker ==
    /\ pc = "reflect"
    /\ status' = [status EXCEPT ![cur.event_id] = "error"]
    /\ pc' = "stopped"
    /\ EndIteration
    /\ UNCHANGED <<pbVars, queue, enqLog, deqLog, apiKey, otherVars>>

\* reflect raises (the model call fails, or its answer does not parse): the
\* except clause logs it, the finally clause runs, the loop goes on
ReflectRaises ==
    /\ pc = "reflect"
    /\ status' = [status EXCEPT ![cur.event_id] = "error"]
    /\ pc' = "get"
    /\ EndIteration
    /\ UNCHANGED <<pbVars, queue, enqLog, deqLog, apiKey, otherVars>>

\* (mutant) the enrichment tasks are launched before the insight is curated
ReflectReturns_GatherFirst(d) ==
    /\ pc = "reflect"
    /\ insight' = Insight(cur, d)
    /\ tasks' = AllTasks("ready")
    /\ status' = [status EXCEPT ![cur.event_id] = "enriching"]
    /\ pc' = "gather"
    /\ UNCHANGED <<pbVars, queue, unfinished, cur, pbAtGet, enqLog, deqLog, apiKey, otherVars>>

\* reflect returns diagnosis d: curate(insight, {}, frame_url, "") saves twice, then
\* asyncio.gather creates the three enrichment tasks and the worker awaits them
ReflectReturns(d) ==
    /\ pc = "reflect"
    /\ LET now == clock + 1
           ins == Insight(cur, d)
           r == Curate(pbFile, ins, EmptyDict, FrameUrl(cur), EmptyStr, now, 0)
       IN  /\ insight' = ins
           /\ pbFile' = r.file
           /\ clock' = now
           /\ merged' = merged \o r.saved
    /\ tasks' = AllTasks("ready")
    /\ status' = [status EXCEPT ![cur.event_id] = "enriching"]
    /\ pc' = "gather"
    /\ UNCHANGED <<queue, unfinished, cur, pbAtGet, enqLog, deqLog, apiKey, otherVars>>

\* (mutant) an exception of curate ends the worker
CurateRaises_KillsWorker(d, failAt) ==
    /\ pc = "reflect"
    /\ LET now == clock + 1
           r == Curate(pbFile, Insight(cur, d), EmptyDict, FrameUrl(cur), EmptyStr, now,
                       failAt)
       IN  /\ r.raised
           /\ pbFile' = r.file
           /\ clock' = IF r.saved # <<>> THEN now ELSE clock
           /\ merged' = merged \o r.saved
    /\ status' = [status EXCEPT ![cur.event_id] = "curate_error"]
    /\ pc' = "stopped"
    /\ EndIteration
    /\ UNCHANGED <<queue, enqLog, deqLog, apiKey, otherVars>>

\* reflect returns but the failAt-th save of curate raises (a disk error): the
\* exception reaches the worker's except clause and the event is dropped, with
\* the bullets saved before the error left in playbook.json
CurateRaises(d, failAt) ==
    /\ pc = "reflect"
    /\ LET now == clock + 1
           r == Curate(pbFile, Insight(cur, d), EmptyDict, FrameUrl(cur), EmptyStr, now,
                       failAt)
       IN  /\ r.raised
           /\ pbFile' = r.file
           /\ clock' = IF r.saved # <<>> THEN now ELSE clock
           /\ merged' = merged \o r.saved
    /\ status' = [status EXCEPT ![cur.event_id] = "curate_error"]
    /\ pc' = "get"
    /\ EndIteration
    /\ UNCHANGED <<queue, enqLog, deqLog, apiKey, otherVars>>

\* asyncio.gather schedules its three tasks in argument order and the event loop
\* runs ready tasks first in, first out: do_mockup (which never suspends) runs to
\* its end, then do_benchmarks up to its first suspension, then do_memory (which
\* never suspends) to its end; the benchmark request is answered after that
SetTask(t, st) == tasks' = [tasks EXCEPT ![t] = st]

\* (mutant) the URL is written back although generate_mockup raised
DoMockup_WritesOnFailure(outcome) ==
    /\ pc = "gather"
    /\ tasks["mockup"] = "ready"
    /\ IF FrameUrl(cur) = EmptyStr \/ cur.frame_path = EmptyStr
       THEN /\ outcome = "skip"
            /\ SetTask("mockup", "skipped")
            /\ UNCHANGED pbVars
       ELSE \/ /\ outcome = "nofile"
               /\ SetTask("mockup", "ok")
               /\ UNCHANGED pbVars
            \/ /\ outcome \in {"ok", "raise"}
               /\ SetTask("mockup", IF outcome = "ok" THEN "ok" ELSE "failed")
               /\ pbFile' = <<UpdateMockupUrl(LoadPlaybook(pbFile, clock + 1), FrameUrl(cur),
                                              MockupUrl(cur), clock + 1)>>
               /\ clock' = clock + 1
               /\ UNCHANGED merged
    /\ UNCHANGED <<queue, unfinished, pc, cur, insight, pbAtGet, status, enqLog, deqLog,
                   apiKey, otherVars>>

\* do_mockup runs to its end in one step (generate_mockup never suspends):
\* "skip" without a frame, "raise" when generation or the save raises, "nofile"
\* when no image came back, "ok" when update_mockup_url saved the mockup URL
DoMockup(outcome) ==
    /\ pc = "gather"
    /\ tasks["mockup"] = "ready"
    /\ IF FrameUrl(cur) = EmptyStr \/ cur.frame_path = EmptyStr
       THEN /\ outcome = "skip"
            /\ SetTask("mockup", "skipped")
            /\ UNCHANGED pbVars
       ELSE \/ /\ outcome = "raise"
               /\ SetTask("mockup", "failed")
               /\ UNCHANGED pbVars
            \/ /\ outcome = "nofile"
               /\ SetTask("mockup", "ok")
               /\ UNCHANGED pbVars
            \/ /\ outcome = "ok"
               /\ SetTask("mockup", "ok")
               /\ pbFile' = <<UpdateMockupUrl(LoadPlaybook(pbFile, clock + 1), FrameUrl(cur),
                                              MockupUrl(cur), clock + 1)>>
               /\ clock' = clock + 1
               /\ UNCHANGED merged
    /\ UNCHANGED <<queue, unfinished, pc, cur, insight, pbAtGet, status, enqLog, deqLog,
                   apiKey, otherVars>>

\* do_benchmarks starts: without an API key search_benchmarks returns {} at once
\* and the task ends; with one it suspends in the research request
BenchStart ==
    /\ pc = "gather"
    /\ tasks["mockup"] # "ready"
    /\ tasks["benchmarks"] = "ready"
    /\ SetTask("benchmarks", IF apiKey THEN "waiting" ELSE "empty")
    /\ UNCHANGED <<pbVars, queue, unfinished, pc, cur, insight, pbAtGet, status, enqLog,
                   deqLog, apiKey, otherVars>>

\* search_benchmarks returns bench (it never raises); with a recommendation the
\* whole insight is curated again, and that curate may raise at its failAt-th
\* save (failAt = 3 is also a benchmark bullet that does not validate): the
\* bullets saved before stay saved and the except clause of the task logs it
BenchReturns(bench, failAt) ==
    /\ pc = "gather"
    /\ tasks["memory"] # "ready"
    /\ tasks["benchmarks"] = "waiting"
    /\ IF HasRecommendation(bench)
       THEN LET now == clock + 1
                r == Curate(pbFile, insight, bench, FrameUrl(cur), EmptyStr, now, failAt)
            IN  /\ pbFile' = r.file
                /\ clock' = IF r.saved # <<>> THEN now ELSE clock
                /\ merged' = merged \o r.saved
                /\ SetTask("benchmarks", IF r.raised THEN "failed" ELSE "ok")
       ELSE /\ failAt = 0
            /\ SetTask("benchmarks", "empty")
            /\ UNCHANGED pbVars
    /\ UNCHANGED <<queue, unfinished, pc, cur, insight, pbAtGet, status, enqLog, deqLog,
                   apiKey, otherVars>>

\* do_memory: store_insight is a plain function, so it runs to its end (stored) or
\* raises (not stored); "await" of the None it returns raises TypeError; either
\* way the except clause logs a failure and "learning" is not published
DoMemory(stored) ==
    /\ pc = "gather"
    /\ tasks["benchmarks"] # "ready"
    /\ tasks["memory"] = "ready"
    /\ SetTask("memory", IF stored THEN "stored_failed" ELSE "failed")
    /\ UNCHANGED <<pbVars, queue, unfinished, pc, cur, insight, pbAtGet, status, enqLog,
                   deqLog, apiKey, otherVars>>

\* asyncio.gather returns once the three tasks have ended; finally: task_done()
GatherReturns ==
    /\ pc = "gather"
    /\ \A t \in TaskNames : tasks[t] \in Finished
    /\ status' = [status EXCEPT ![cur.event_id] = "done"]
    /\ pc' = "get"
    /\ EndIteration
    /\ UNCHANGED <<pbVars, queue, enqLog, deqLog, apiKey, otherVars>>

\* lifespan's exit: task.cancel().  CancelledError is raised at the await the worker
\* is suspended in; it is not an Exception, so only the finally clause runs (when
\* an event is held), gather cancels its unfinished tasks, and the worker ends
Cancel ==
    /\ pc \in {"get", "reflect", "gather"}
    /\ pc' = "stopped"
    /\ IF pc = "get"
       THEN UNCHANGED <<unfinished, cur, insight, pbAtGet, tasks, status>>
       ELSE /\ EndIteration
            /\ status' = [status EXCEPT ![cur.event_id] =
                              IF pc = "reflect" THEN "cancelled_diagnosing"
                              ELSE "cancelled_enriching"]
    /\ UNCHANGED <<pbVars, queue, enqLog, deqLog, apiKey, otherVars>>

Next ==
    \/ \E c \in Producers : Put(c)
    \/ WorkerGet
    \/ ReflectRaises
    \/ \E d \in Diagnoses : ReflectReturns(d)
    \/ \E d \in Diagnoses, failAt \in 1..2 : CurateRaises(d, failAt)
    \/ \E outcome \in {"skip", "raise", "nofile", "ok"} : DoMockup(outcome)
    \/ BenchStart
    \/ \E bench \in BenchResults, failAt \in 0..3 : BenchReturns(bench, failAt)
    \/ \E stored \in BOOLEAN : DoMemory(stored)
    \/ GatherReturns
    \/ Cancel

Spec == Init /\ [][Next]_vars

\* the steps of the worker: every await it is suspended in returns or raises
WorkerStep ==
    \/ WorkerGet
    \/ ReflectRaises
    \/ \E d \in Diagnoses : ReflectReturns(d)
    \/ \E d \in Diagnoses, failAt \in 1..2 : CurateRaises(d, failAt)
    \/ \E outcome \in {"skip", "raise", "nofile", "ok"} : DoMockup(outcome)
    \/ BenchStart
    \/ \E bench \in BenchResults, failAt \in 0..3 : BenchReturns(bench, failAt)
    \/ \E stored \in BOOLEAN : DoMemory(stored)
    \/ GatherReturns

NextLive ==
    \/ \E c \in Producers : Put(c)
    \/ WorkerStep

\* the application is not shut down, and no collaborator call hangs
SpecLive == Init /\ [][NextLive]_vars /\ WF_vars(WorkerStep)

(***************************************************************************)
(* modulate.py: sentiment of one audio chunk.  Scores are in hundredths    *)
(* (0.85 is 85), times in milliseconds.                                    *)
(***************************************************************************)
\* _EMOTION_MAP
EMOTION_MAP ==
    [e \in {"Frustrated", "Angry", "Confused", "Uncertain", "Hesitant", "Anxious",
            "Neutral", "Happy", "Calm"} |->
        CASE e \in {"Frustrated", "Angry"} -> [sentiment |-> "Frustrated", score |-> 85]
          [] e \in {"Confused", "Uncertain"} -> [sentiment |-> "Confused", score |-> 75]
          [] e \in {"Hesitant", "Anxious"} -> [sentiment |-> "Hesitant", score |-> 65]
          [] OTHER -> [sentiment |-> "Neutral", score |-> 20]]

\* _map_emotion: an unknown label is Neutral with 0.3
MapEmotion(emotion) ==
    IF emotion \in DOMAIN EMOTION_MAP
    THEN EMOTION_MAP[emotion]
    ELSE [sentiment |-> "Neutral", score |-> 30]

Phrase(p, sentiment, score) == [phrase |-> p, sentiment |-> sentiment, score |-> score]

\* _FRICTION_PHRASES, in the order of the list
FRICTION_PHRASES ==
    <<Phrase(<<"c", "a", "n", "'", "t", " ", "f", "i", "g", "u", "r", "e">>, "Confused", 80),
      Phrase(<<"c", "a", "n", "'", "t", " ", "s", "e", "e", "m", " ", "t", "o">>, "Confused", 75),
      Phrase(<<"d", "o", "n", "'", "t", " ", "s", "e", "e">>, "Confused", 75),
      Phrase(<<"d", "o", "n", "'", "t", " ", "k", "n", "o", "w", " ", "h", "o", "w">>, "Confused", 75),
      Phrase(<<"c", "o", "n", "f", "u", "s", "i", "n", "g">>, "Confused", 80),
      Phrase(<<"c", "o", "n", "f", "u", "s", "e", "d">>, "Confused", 80),
      Phrase(<<"w", "h", "e", "r", "e", " ", "i", "s">>, "Confused", 70),
      Phrase(<<"w", "h", "e", "r", "e", " ", "d", "o", " ", "i">>, "Confused", 70),
      Phrase(<<"h", "o", "w", " ", "d", "o", " ", "i">>, "Confused", 65),
      Phrase(<<"n", "o", "t", " ", "w", "o", "r", "k", "i", "n", "g">>, "Frustrated", 80),
      Phrase(<<"d", "o", "e", "s", "n", "'", "t", " ", "w", "o", "r", "k">>, "Frustrated", 80),
      Phrase(<<"b", "r", "o", "k", "e", "n">>, "Frustrated", 85),
      Phrase(<<"f", "r", "u", "s", "t", "r", "a", "t", "i", "n", "g">>, "Frustrated", 85),
      Phrase(<<"a", "n", "n", "o", "y", "i", "n", "g">>, "Frustrated", 80),
      Phrase(<<"w", "h", "a", "t", " ", "t", "h", "e">>, "Frustrated", 75),
      Phrase(<<"m", "a", "k", "e", "s", " ", "n", "o", " ", "s", "e", "n", "s", "e">>, "Frustrated", 80),
      Phrase(<<"n", "o", " ", "i", "d", "e", "a">>, "Confused", 75),
      Phrase(<<"i", "m", "p", "o", "s", "s", "i", "b", "l", "e">>, "Frustrated", 85),
      Phrase(<<"s", "t", "u", "c", "k">>, "Frustrated", 75),
      Phrase(<<"g", "i", "v", "e", " ", "u", "p">>, "Frustrated", 90)>>

\* _text_friction_check: the first phrase of the highest score found in the
\* lowercased text, or Neutral with 0
RECURSIVE TextFrictionFrom(_, _, _)
TextFrictionFrom(lower, i, best) ==
    IF i > Len(FRICTION_PHRASES)
    THEN best
    ELSE LET p == FRICTION_PHRASES[i]
         IN  TextFrictionFrom(lower, i + 1,
                 IF IsSubstring(p.phrase, lower) /\ p.score > best.score
                 THEN [sentiment |-> p.sentiment, score |-> p.score]
                 ELSE best)

TextFrictionCheck(text) ==
    TextFrictionFrom(Lower(text), 1, [sentiment |-> "Neutral", score |-> 0])

\* a key of a reply of the service is absent (None) or holds a value (Some(v));
\* Get is dict.get(key, default)
None == <<>>

Some(v) == <<v>>

Get(field, default) == IF field = None THEN default ELSE field[1]

Utterance(emotion, text, start_ms) ==
    [emotion |-> emotion, text |-> text, start_ms |-> start_ms]

Reply(utterances, text) == [utterances |-> utterances, text |-> text]

NoFeatures == [empty |-> TRUE, utterance_count |-> 0, dominant_emotion |-> "Neutral",
               text_friction_detected |-> FALSE]

SentimentResult(sentiment, score, quote, timestamp, chunk_index, voice_features) ==
    [sentiment |-> sentiment, score |-> score, quote |-> quote, timestamp |-> timestamp,
     chunk_index |-> chunk_index, voice_features |-> voice_features]

\* the loop over the utterances: the first one of the highest mapped score
RECURSIVE BestUtteranceFrom(_, _, _)
BestUtteranceFrom(utterances, i, best) ==
    IF i > Len(utterances)
    THEN best
    ELSE LET m == MapEmotion(Get(utterances[i].emotion, "Neutral"))
         IN  BestUtteranceFrom(utterances, i + 1,
                 IF m.score > best.score
                 THEN [score |-> m.score, sentiment |-> m.sentiment, index |-> i]
                 ELSE best)

BestUtterance(utterances) ==
    BestUtteranceFrom(utterances, 1, [score |-> -1, sentiment |-> "", index |-> 0])

\* (mutant) the text result also wins on equal scores
TextOverrides_OnTie(text_score, best_score) == text_score >= best_score

\* if text_score > best_score: the text result replaces the acoustic one
TextOverrides(text_score, best_score) == text_score > best_score

\* analyze_sentiment once the service has replied with data; start_time is in
\* milliseconds
AnalyzeReply(data, chunk_index, start_time) ==
    IF Get(data.utterances, <<>>) = <<>>
    THEN SentimentResult("Neutral", 0, Get(data.text, EmptyStr), start_time, chunk_index,
                         NoFeatures)
    ELSE LET utterances == Get(data.utterances, <<>>)
             best == BestUtterance(utterances)
             utt == utterances[best.index]
             full_text == Get(data.text, EmptyStr)
             txt == TextFrictionCheck(full_text)
             override == TextOverrides(txt.score, best.score)
         IN  SentimentResult(
                 IF override THEN txt.sentiment ELSE best.sentiment,
                 IF override THEN txt.score ELSE best.score,
                 IF override /\ full_text # EmptyStr THEN full_text
                 ELSE Get(utt.text, EmptyStr),
                 start_time + Get(utt.start_ms, 0),
                 chunk_index,
                 [empty |-> FALSE,
                  utterance_count |-> Len(utterances),
                  dominant_emotion |-> Get(utt.emotion, "Neutral"),
                  text_friction_detected |-> txt.score > 0])

\* (mutant) the service is called although MODULATE_API_KEY is not set
AnalyzeSentiment_NoKeyCheck(api_key, data, chunk_index, start_time) ==
    AnalyzeReply(data, chunk_index, start_time)

\* analyze_sentiment: without MODULATE_API_KEY a neutral placeholder, else the
\* analysis of the reply of the service
AnalyzeSentiment(api_key, data, chunk_index, start_time) ==
    IF ~api_key
    THEN SentimentResult("Neutral", 0, EmptyStr, start_time, chunk_index, NoFeatures)
    ELSE AnalyzeReply(data, chunk_index, start_time)

\* the transcripts and utterance texts of the replies of the model
X_broken == <<"i", "t", " ", "i", "s", " ", "B", "R", "O", "K", "E", "N">>

X_hmm == <<"h", "m", "m">>

X_ugh == <<"u", "g", "h">>

X_where == <<"w", "h", "e", "r", "e">>

X_stuck == <<"i", " ", "a", "m", " ", "s", "t", "u", "c", "k">>

X_hello == <<"h", "e", "l", "l", "o">>

X_how == <<"h", "o", "w", " ", "d", "o", " ", "i">>

X_bored == <<"s", "o", " ", "b", "o", "r", "e", "d">>

X_giveup == <<"i", " ", "g", "i", "v", "e", " ", "u", "p">>

\* what the service may reply for a chunk
Replies ==
    {Reply(Some(<<>>), None),
     Reply(Some(<<>>), Some(X_broken)),
     Reply(Some(<<Utterance(Some("Frustrated"), Some(X_ugh), Some(1500))>>), Some(X_ugh)),
     Reply(Some(<<Utterance(Some("Neutral"), Some(X_broken), Some(0)),
                  Utterance(Some("Hesitant"), Some(X_hmm), Some(4000))>>), Some(X_broken)),
     Reply(Some(<<Utterance(Some("Confused"), Some(X_where), Some(2000))>>), Some(X_stuck)),
     Reply(Some(<<Utterance(None, Some(X_how), None)>>), None),
     Reply(Some(<<Utterance(Some("Bored"), Some(X_bored), Some(0))>>), Some(X_how)),
     Reply(Some(<<Utterance(Some("Angry"), Some(X_ugh), Some(1000)),
                  Utterance(Some("Frustrated"), Some(X_hmm), Some(3000))>>),
           Some(X_giveup))}

(***************************************************************************)
(* generator.py and POST /upload: process_all runs process_upload on each  *)
(* uploaded video in turn; process_upload analyses the chunks of a video   *)
(* in order and puts a FrictionEvent for each friction spike.              *)
(***************************************************************************)
FRICTION_THRESHOLD == 60

CHUNK_DURATION == 30

\* (mutant) the threshold itself counts as friction
IsFrictionSpike_Inclusive(score) == score >= FRICTION_THRESHOLD

\* (mutant) every chunk counts as friction
IsFrictionSpike_Always(score) == score >= 0

\* if result.score > FRICTION_THRESHOLD
IsFrictionSpike(score) == score > FRICTION_THRESHOLD

NoResult == SentimentResult("Neutral", 0, EmptyStr, 0, 0, NoFeatures)

IdleSense ==
    [pc |-> "idle", key |-> FALSE, plan |-> <<>>, video |-> 0, chunk |-> 0,
     result |-> NoResult, frame |-> EmptyStr, log |-> <<>>]

RECURSIVE SumSeq(_)
SumSeq(p) == IF p = <<>> THEN 0 ELSE Head(p) + SumSeq(Tail(p))

\* the uploads: per video, the number of chunks split_audio will find
Plans ==
    {p \in UNION {[1..n -> 0..MaxChunks] : n \in 1..MaxVideos} : SumSeq(p) \in 1..MaxChunks}

senseFrame == <<pbVars, pc, cur, insight, pbAtGet, tasks, status, enqLog, deqLog, apiKey,
                tmpFile, saveSt, bus, research, curation>>

\* the video is finished (the session summary is stored, a failure of that is
\* caught): process_all goes on to the next video or ends
FinishVideo(s) ==
    IF s.video < Len(s.plan)
    THEN [s EXCEPT !.video = @ + 1, !.chunk = 0, !.pc = "audio"]
    ELSE [s EXCEPT !.pc = "done"]

\* the end of the body of "for segment in segments"
Advance(s) ==
    IF s.chunk + 1 < s.plan[s.video]
    THEN [s EXCEPT !.chunk = @ + 1, !.pc = "analyze"]
    ELSE FinishVideo(s)

SetLast(log, st, event) ==
    [log EXCEPT ![Len(log)] = [@ EXCEPT !.state = st, !.event = event]]

\* POST /upload: the files are saved and process_all is created
Upload(plan, key) ==
    /\ sense.pc = "idle"
    /\ sense' = [sense EXCEPT !.pc = "audio", !.key = key, !.plan = plan, !.video = 1]
    /\ UNCHANGED <<senseFrame, queue, unfinished>>

\* extract_audio and split_audio return the segments of the video
AudioReturns ==
    /\ sense.pc = "audio"
    /\ sense' = IF sense.plan[sense.video] = 0
                THEN FinishVideo(sense)
                ELSE [sense EXCEPT !.chunk = 0, !.pc = "analyze"]
    /\ UNCHANGED <<senseFrame, queue, unfinished>>

\* analyze_sentiment has returned r: step 3b, up to the await of extract_frame
\* or to the next segment
AfterAnalyze(r, data) ==
    LET spike == IsFrictionSpike(r.score)
        entry == [video |-> sense.video, chunk |-> sense.chunk, data |-> data,
                  result |-> r, state |-> IF spike THEN "spike" ELSE "skipped",
                  event |-> 0]
        s == [sense EXCEPT !.result = r, !.log = Append(@, entry)]
    IN  sense' = IF spike THEN [s EXCEPT !.pc = "frame"] ELSE Advance(s)

\* analyze_sentiment of modulate.py returns; data is what the service replies
\* when it is called (without a key it is not, and the log holds no reply)
AnalyzeReturns(data) ==
    /\ sense.pc = "analyze"
    /\ AfterAnalyze(AnalyzeSentiment(sense.key, data, sense.chunk,
                                     sense.chunk * CHUNK_DURATION * 1000),
                    IF sense.key THEN Some(data) ELSE None)
    /\ UNCHANGED <<senseFrame, queue, unfinished>>

\* process_upload with analyze_sentiment as a collaborator that returns a
\* SentimentResult of any score
Scores == {0, 20, 59, 60, 61, 65, 100}

AnalyzeReturnsResult(score) ==
    /\ sense.pc = "analyze"
    /\ AfterAnalyze(SentimentResult("Hesitant", score, X_hmm,
                                    sense.chunk * CHUNK_DURATION * 1000, sense.chunk,
                                    NoFeatures),
                    None)
    /\ UNCHANGED <<senseFrame, queue, unfinished>>

\* extract_frame returns the path of the frame
FrameReturns ==
    /\ sense.pc = "frame"
    /\ sense' = [sense EXCEPT !.pc = "visual", !.frame = FramePath(Len(queue) + 1)]
    /\ UNCHANGED <<senseFrame, queue, unfinished>>

\* the FrictionEvent process_upload builds from the sentiment result
SensedEvent(id, r, frame_path) ==
    [FrictionEvent(id, r.quote, frame_path) EXCEPT
        !.acoustic_data = [sentiment |-> r.sentiment, score |-> r.score]]

\* (mutant) the events are collected and not put on the queue chunk by chunk
VisualReturns_Batched ==
    /\ sense.pc = "visual"
    /\ sense' = Advance(sense)
    /\ UNCHANGED <<senseFrame, queue, unfinished>>

\* analyze_screenshot returns: the event is built and put on the queue (put on
\* an unbounded queue does not suspend), then the next segment
VisualReturns ==
    /\ sense.pc = "visual"
    /\ LET id == Len(queue) + 1
       IN  /\ queue' = Append(queue, SensedEvent(id, sense.result, sense.frame))
           /\ sense' = Advance([sense EXCEPT !.log = SetLast(@, "queued", id)])
    /\ unfinished' = unfinished + 1
    /\ UNCHANGED senseFrame

\* ffmpeg fails or a service call raises: process_upload has no handler, the
\* exception ends it and process_all with it
CollaboratorRaises ==
    /\ sense.pc \in {"audio", "analyze", "frame", "visual"}
    /\ sense.pc = "analyze" => sense.key
    /\ sense' = [sense EXCEPT !.pc = IF sense.pc = "audio" THEN "aborted_audio" ELSE "aborted",
                              !.log = IF sense.pc \in {"frame", "visual"}
                                      THEN SetLast(@, "failed", 0) ELSE @]
    /\ UNCHANGED <<senseFrame, queue, unfinished>>

InitSense == Init /\ apiKey = FALSE

NextSense ==
    \/ \E plan \in Plans, key \in BOOLEAN : Upload(plan, key)
    \/ AudioReturns
    \/ \E data \in Replies : AnalyzeReturns(data)
    \/ FrameReturns
    \/ VisualReturns
    \/ CollaboratorRaises

SpecSense == InitSense /\ [][NextSense]_vars

NextThreshold ==
    \/ \E plan \in Plans : Upload(plan, TRUE)
    \/ AudioReturns
    \/ \E score \in Scores : AnalyzeReturnsResult(score)
    \/ FrameReturns
    \/ VisualReturns
    \/ CollaboratorRaises

SpecThreshold == InitSense /\ [][NextThreshold]_vars

(***************************************************************************)
(* playbook.py, save_playbook step by step: the temporary file is opened   *)
(* (truncated), json.dump writes the document part by part, the file is    *)
(* closed and os.replace renames it over playbook.json.  The process may   *)
(* crash between any two steps; the files stay as they are.                *)
(***************************************************************************)
\* the parts json.dump writes one after the other: the head, then each bullet
Parts(pb) == Len(pb.bullets) + 1

\* the content of a file that holds the first n parts of pb: the whole document,
\* or a partial document, which json.load cannot parse
FileOf(pb, n) == IF n = Parts(pb) THEN <<pb>> ELSE <<pb, n>>

Parseable(file) == Len(file) <= 1

saveFrame == <<queue, unfinished, pc, cur, insight, pbAtGet, tasks, status, enqLog, deqLog,
               apiKey, sense, bus, research, curation>>

\* add_or_merge_bullet(load_playbook(), nb) up to open(tmp_path, "w") in
\* save_playbook: last_updated is set and the temporary file is empty
SaveOpen(nb) ==
    /\ saveSt = <<>>
    /\ clock < MaxMerges
    /\ LET now == clock + 1
           b == [nb EXCEPT !.id = <<now, 1>>, !.created_at = now, !.updated_at = now]
           pb == AddOrMergeBullet(LoadPlaybook(pbFile, now), b, now)
       IN  /\ saveSt' = <<pb>>
           /\ tmpFile' = <<pb, 0>>
           /\ clock' = now
           /\ merged' = Append(merged, b)
    /\ UNCHANGED <<pbFile, saveFrame>>

\* json.dump writes the next part to the temporary file
SaveWrite ==
    /\ saveSt # <<>>
    /\ tmpFile[2] < Parts(tmpFile[1])
    /\ tmpFile' = <<tmpFile[1], tmpFile[2] + 1>>
    /\ UNCHANGED <<pbFile, clock, merged, saveSt, saveFrame>>

\* (mutant) the temporary file is renamed before it is written out
SaveRename_Early ==
    /\ saveSt # <<>>
    /\ pbFile' = FileOf(tmpFile[1], tmpFile[2])
    /\ tmpFile' = <<>>
    /\ saveSt' = <<>>
    /\ UNCHANGED <<clock, merged, saveFrame>>

\* the with block has ended (json.dump has returned, the file is closed):
\* os.replace(tmp_path, PLAYBOOK_PATH)
SaveRename ==
    /\ saveSt # <<>>
    /\ tmpFile[2] = Parts(tmpFile[1])
    /\ pbFile' = FileOf(tmpFile[1], tmpFile[2])
    /\ tmpFile' = <<>>
    /\ saveSt' = <<>>
    /\ UNCHANGED <<clock, merged, saveFrame>>

\* the process dies and is started again: what it held in memory is gone
Crash ==
    /\ saveSt # <<>>
    /\ saveSt' = <<>>
    /\ UNCHANGED <<pbFile, tmpFile, clock, merged, saveFrame>>

NextSave ==
    \/ \E nb \in Candidates : SaveOpen(nb)
    \/ SaveWrite
    \/ SaveRename
    \/ Crash

SpecSave == InitMerge /\ [][NextSave]_vars

(***************************************************************************)
(* yutori_client.py: search_benchmarks, from one await to the next: the    *)
(* create request, the polling loop (sleep, get), the close of the client. *)
(***************************************************************************)
\* max_polls
MAX_POLLS == 15

researchFrame == <<pbVars, queue, unfinished, pc, cur, insight, pbAtGet, tasks, status,
                   enqLog, deqLog, apiKey, sense, tmpFile, saveSt, bus, curation>>

\* {}
EmptyResult ==
    [empty |-> TRUE, source |-> EmptyStr, recommendation |-> EmptyStr, examples |-> <<>>]

\* the "output" of a task: the key is missing, null, or a mapping of optional keys
NoOutput == [kind |-> "missing", source |-> None, recommendation |-> None, examples |-> None]

NullOutput == [kind |-> "null", source |-> None, recommendation |-> None, examples |-> None]

Output(source, recommendation, examples) ==
    [kind |-> "dict", source |-> source, recommendation |-> recommendation,
     examples |-> examples]

Outputs ==
    {NoOutput, NullOutput, Output(None, None, None),
     Output(Some(W_NNG), Some(T_ShowMenu), Some(<<"Maps">>))}

\* what research.create and research.get may answer
TaskReplies ==
    [task_id : BOOLEAN,
     status : {None, Some("queued"), Some("running"), Some("completed"), Some("failed")},
     output : Outputs]

\* task.get("status") not in ("completed", "failed")
Pending(task) == Get(task.status, "None") \notin {"completed", "failed"}

\* (mutant) one more round before giving up
TimedOut_Late(polls) == polls > MAX_POLLS + 1

\* polls > max_polls
TimedOut(polls) == polls > MAX_POLLS

\* the return statement of the function, and of its except clause
Return(r, value, raised) ==
    [r EXCEPT !.pc = "returned", !.result = <<value>>, !.raised = raised]

\* the head of the while loop, up to the next await
LoopHead(r, task) ==
    IF Pending(task)
    THEN LET polls == r.polls + 1
         IN  [r EXCEPT !.polls = polls, !.status = <<task>>,
                       !.pc = IF TimedOut(polls) THEN "close_timeout" ELSE "sleep"]
    ELSE [r EXCEPT !.status = <<task>>, !.pc = "close"]

\* the mapping built from a completed task; output null has no get()
BuildResult(r, task) ==
    IF task.output.kind = "null" THEN Return(r, EmptyResult, TRUE)
    ELSE Return(r,
                [empty |-> FALSE,
                 source |-> Get(task.output.source, <<"Yutori Research">>),
                 recommendation |-> Get(task.output.recommendation, EmptyStr),
                 examples |-> Get(task.output.examples, <<>>)],
                FALSE)

\* search_benchmarks is called: without YUTORI_API_KEY it returns {} at once
Search(key) ==
    /\ research.pc = "idle"
    /\ research' = IF key
                   THEN [research EXCEPT !.pc = "create", !.key = TRUE, !.calls = 1]
                   ELSE Return(research, EmptyResult, FALSE)
    /\ UNCHANGED researchFrame

\* research.create returns; task["task_id"] raises KeyError when it is missing
CreateReturns(task) ==
    /\ research.pc = "create"
    /\ research' = IF task.task_id
                   THEN LoopHead([research EXCEPT !.first = <<task>>], task)
                   ELSE Return([research EXCEPT !.first = <<task>>], EmptyResult, TRUE)
    /\ UNCHANGED researchFrame

\* asyncio.sleep(2) is over: research.get is requested
SleepReturns ==
    /\ research.pc = "sleep"
    /\ research' = [research EXCEPT !.pc = "get", !.gets = @ + 1, !.calls = @ + 1]
    /\ UNCHANGED researchFrame

\* research.get returns
GetReturns(task) ==
    /\ research.pc = "get"
    /\ research' = LoopHead(research, task)
    /\ UNCHANGED researchFrame

\* client.close() returns: after the loop, or on the timeout path
CloseReturns ==
    /\ research.pc \in {"close", "close_timeout"}
    /\ LET task == research.status[1]
       IN  research' =
               IF research.pc = "close_timeout" THEN Return(research, EmptyResult, FALSE)
               ELSE IF Get(task.status, "None") = "failed"
                    THEN Return(research, EmptyResult, FALSE)
                    ELSE BuildResult(research, task)
    /\ UNCHANGED researchFrame

\* (mutant) the exception of the service reaches the caller
ServiceRaises_Escapes ==
    /\ research.pc \in {"create", "get", "close", "close_timeout"}
    /\ research' = [research EXCEPT !.pc = "raised", !.raised = TRUE]
    /\ UNCHANGED researchFrame

\* a call to the service raises: except Exception returns {}
ServiceRaises ==
    /\ research.pc \in {"create", "get", "close", "close_timeout"}
    /\ research' = Return(research, EmptyResult, TRUE)
    /\ UNCHANGED researchFrame

NextResearch ==
    \/ \E key \in BOOLEAN : Search(key)
    \/ \E task \in TaskReplies : CreateReturns(task)
    \/ SleepReturns
    \/ \E task \in TaskReplies : GetReturns(task)
    \/ CloseReturns
    \/ ServiceRaises

\* every call to the service and every sleep eventually returns or raises
SpecResearch == InitMerge /\ [][NextResearch]_vars /\ WF_vars(NextResearch)

(***************************************************************************)
(* progress.py: publish and subscribe.  publish is a plain function, so it *)
(* runs from its first to its last line without interruption; a subscriber *)
(* is suspended in queue.get() or in its yield.                            *)
(***************************************************************************)
busFrame == <<pbVars, queue, unfinished, pc, cur, insight, pbAtGet, tasks, status, enqLog,
              deqLog, apiKey, sense, tmpFile, saveSt, research, curation>>

Live(b) == Range(b.subs)

\* (mutant) the queue takes the payload whatever it holds
PutNowait_Unbounded(q, payload) == [q |-> Append(q, payload), full |-> FALSE]

\* queue.put_nowait(payload): QueueFull when qsize() >= maxsize
PutNowait(q, payload) ==
    IF Len(q) >= QUEUE_MAXSIZE
    THEN [q |-> q, full |-> TRUE]
    ELSE [q |-> Append(q, payload), full |-> FALSE]

\* (mutant) the newest payload is taken first
QueueGet_Newest(q) == [item |-> q[Len(q)], rest |-> SubSeq(q, 1, Len(q) - 1)]

\* queue.get() on a queue that holds something
QueueGet(q) == [item |-> Head(q), rest |-> Tail(q)]

\* subscribe() up to its first await: a new queue is appended to _subscribers
Subscribe ==
    /\ Cardinality(bus.reg) < MaxSubscribers
    /\ LET id == Cardinality(bus.reg) + 1
       IN  bus' = [bus EXCEPT !.subs = Append(@, id),
                              !.reg = @ \cup {id},
                              !.q[id] = <<>>,
                              !.since[id] = bus.published]
    /\ UNCHANGED busFrame

\* publish(stage, message, detail): the loop over _subscribers, QueueFull passed
Publish ==
    /\ bus.published - bus.start < MaxPublish
    /\ LET payload == bus.published + 1
           put == [id \in SubIds |-> PutNowait(bus.q[id], payload)]
       IN  bus' = [bus EXCEPT !.published = payload,
                              !.q = [id \in SubIds |->
                                        IF id \in Live(bus) THEN put[id].q ELSE bus.q[id]],
                              !.dropped = @ \cup {[sub |-> id, event |-> payload,
                                                   qsize |-> Len(bus.q[id])] :
                                                  id \in {i \in Live(bus) : put[i].full}}]
    /\ UNCHANGED busFrame

\* queue.get() returns and the payload is yielded to the client
Receive(id) ==
    /\ id \in Live(bus)
    /\ bus.q[id] # <<>>
    /\ Len(bus.got[id]) < MaxReceive
    /\ LET g == QueueGet(bus.q[id])
       IN  bus' = [bus EXCEPT !.q[id] = g.rest, !.got[id] = Append(@, g.item)]
    /\ UNCHANGED busFrame

\* (mutant) the generator ends without removing its queue
Disconnect_Leaks(id) ==
    /\ id \in Live(bus)
    /\ id \notin bus.ended
    /\ bus' = [bus EXCEPT !.ended = @ \cup {id}]
    /\ UNCHANGED busFrame

\* the client disconnects: the generator is cancelled or closed, and its
\* finally clause removes the queue from _subscribers
Disconnect(id) ==
    /\ id \in Live(bus)
    /\ bus' = [bus EXCEPT !.subs = SelectSeq(@, LAMBDA x : x # id), !.ended = @ \cup {id}]
    /\ UNCHANGED busFrame

InitBus ==
    /\ InitProgram /\ apiKey = FALSE /\ bus \in BusStarts /\ research = IdleResearch
    /\ curation = IdleCuration

NextBus ==
    \/ Subscribe
    \/ Publish
    \/ \E id \in SubIds : Receive(id)
    \/ \E id \in SubIds : Disconnect(id)

SpecBus == InitBus /\ [][NextBus]_vars

(***************************************************************************)
(* Claims about the Brain Worker (Spec).                                   *)
(***************************************************************************)
Bullets == IF pbFile = Absent THEN <<>> ELSE pbFile[1].bullets

\* where the evidence of event id stands in the playbook: <<bullet, entry>>
EvidencePlaces(id) ==
    UNION {{<<i, k>> : k \in {n \in 1..Len(Bullets[i].evidence) :
                                  Bullets[i].evidence[n].timestamp = id}} :
           i \in 1..Len(Bullets)}

StatusOf(k) == status[enqLog[k].event_id]

\* C1: events are taken in the order they were put, and when the diagnosis of an
\* event has started every event put before it has been curated or dropped.
C1_FifoOrder ==
    /\ Len(deqLog) <= Len(enqLog)
    /\ \A k \in 1..Len(deqLog) : deqLog[k] = enqLog[k].event_id
    /\ \A i, j \in 1..Len(enqLog) :
          (i < j /\ StatusOf(j) # "queued")
              => StatusOf(i) \in {"enriching", "done", "cancelled_enriching",
                                  "error", "curate_error"}

\* two events of two producers: the first is done, the second is being diagnosed
C1_Witness ==
    /\ Len(enqLog) >= 2
    /\ enqLog[1].user_quote # enqLog[2].user_quote
    /\ StatusOf(1) = "done"
    /\ StatusOf(2) = "diagnosing"

\* C2: once an enrichment task of the event has started, the event's friction_log
\* and hard_strategy evidence is in the persisted playbook.
C2_CuratedBeforeEnrichment ==
    (pc = "gather" /\ \E t \in TaskNames : tasks[t] # "ready")
        => /\ pbFile # Absent
           /\ Cardinality(EvidencePlaces(cur.event_id)) >= 2

\* the mockup task has run and the benchmark task is suspended in its request
C2_Witness ==
    /\ pc = "gather"
    /\ tasks["mockup"] = "ok"
    /\ tasks["benchmarks"] = "waiting"

\* C3: the step in which reflect raises leaves playbook.json as it was when the
\* event was dequeued, without the event in it, starts no enrichment task, and
\* leaves the worker waiting for the next event.
C3_DiagnosisFailureIsolated ==
    [][(pc = "reflect" /\ status'[cur.event_id] = "error")
          => /\ pbFile' = pbAtGet
             /\ EvidencePlaces(cur.event_id)' = {}
             /\ tasks' = AllTasks("none")
             /\ pc' = "get"
             /\ queue' = queue
      ]_vars

\* a failed diagnosis of the first event, and the second event fully processed
C3_Witness ==
    /\ Len(enqLog) >= 2
    /\ StatusOf(1) = "error"
    /\ StatusOf(2) = "done"

\* C4: a step in which an enrichment task fails changes no other task, keeps the
\* worker in gather with its event, and leaves every bullet of the playbook as
\* it was; and the step that ends gather marks the event done whatever failed.
C4_EnrichmentIsolated ==
    [][/\ \A t \in TaskNames :
            (tasks[t] \notin Failed /\ tasks'[t] \in Failed)
                => /\ \A u \in TaskNames \ {t} : tasks'[u] = tasks[u]
                   /\ pc' = "gather"
                   /\ cur' = cur
                   /\ status' = status
                   /\ Bullets' = Bullets
       /\ (pc = "gather" /\ pc' = "get") => status'[cur.event_id] = "done"
      ]_vars

\* C5 as stated: an unfinished enrichment task does not keep the worker from
\* taking the next event off the queue.
C5_EnrichmentOffDequeuePath ==
    (pc = "gather" /\ queue # <<>> /\ \E t \in TaskNames : tasks[t] \notin Finished)
        => ENABLED WorkerGet

\* C5 amended: while an enrichment task of an event is unfinished the worker takes
\* no event, so every event put after it is still queued.
C5_EnrichmentBlocksDequeue ==
    /\ pc = "gather" => ~ENABLED WorkerGet
    /\ \A i, j \in 1..Len(enqLog) :
          (i < j /\ StatusOf(i) = "enriching") => StatusOf(j) = "queued"

\* a benchmark request pending while another event waits in the queue
C5_Witness ==
    /\ pc = "gather"
    /\ tasks["benchmarks"] = "waiting"
    /\ queue # <<>>

\* C6: no dequeued event is lost by a cancellation: each one is curated or dropped
\* by a diagnosis error before the worker terminates.
C6_GracefulShutdown ==
    pc = "stopped" =>
        \A k \in 1..Len(deqLog) : status[deqLog[k]] # "cancelled_diagnosing"

\* C7: the events put are exactly the events taken followed by the events still
\* queued, no event is taken twice, and the events whose diagnosis has started
\* are the events taken.
C7_ConsumedExactlyOnce ==
    /\ [k \in 1..Len(enqLog) |-> enqLog[k].event_id]
          = deqLog \o [k \in 1..Len(queue) |-> queue[k].event_id]
    /\ \A i, j \in 1..Len(deqLog) : i # j => deqLog[i] # deqLog[j]
    /\ \A e \in EventIds :
          (status[e] \notin {"none", "queued"}) <=> (\E k \in 1..Len(deqLog) : deqLog[k] = e)

\* two events put, both taken, the queue empty again
C7_Witness ==
    /\ Len(enqLog) >= 2
    /\ Len(deqLog) = Len(enqLog)
    /\ queue = <<>>
    /\ StatusOf(2) = "done"

\* the bullets of type benchmark in playbook.json
BenchmarkBullets(file) ==
    LET bs == LoadPlaybook(file, 0).bullets
    IN  {bs[i] : i \in {j \in 1..Len(bs) : bs[j].bullet_type = "benchmark"}}

SameFinding(x, y) ==
    /\ x.category = y.category
    /\ LET ka == Keywords(x.title)
           kb == Keywords(y.title)
       IN  /\ ka # {} /\ kb # {}
           /\ 5 * Cardinality(ka \cap kb) > 3 * Min(Cardinality(ka), Cardinality(kb))

\* C8: the playbook never holds two distinct bullets of the same category whose
\* titles have a keyword overlap greater than 0.6.
C8_NoDuplicateFindings ==
    \A i, j \in 1..Len(Bullets) :
        i # j => ~SameFinding(Bullets[i], Bullets[j])

\* two bullets of one category side by side, one of them merged into at least once
C8_Witness ==
    \E i, j \in 1..Len(Bullets) :
        /\ i # j
        /\ Bullets[i].category = Bullets[j].category
        /\ Bullets[i].friction_count >= 2

\* C9: N >= 1 merges of the same finding into the initial (empty) playbook leave
\* exactly one bullet, with friction_count = N and N evidence entries.
C9_MergeCounts ==
    (merged # <<>> /\ \A k \in 1..Len(merged) : SameFinding(merged[k], merged[1]))
        => /\ Len(Bullets) = 1
           /\ Bullets[1].friction_count = Len(merged)
           /\ Len(Bullets[1].evidence) = Len(merged)

\* three merges of one finding, two of them with the identical evidence entry
C9_Witness ==
    /\ Len(merged) = 3
    /\ \A k \in 1..3 : SameFinding(merged[k], merged[1])
    /\ Len(Bullets) = 1
    /\ Bullets[1].evidence[1] = Bullets[1].evidence[2]

\* C10: in every step, every bullet's severity rank does not decrease, changes only
\* to the severity of a bullet merged in that step that strictly outranks it, and
\* a critical bullet stays critical.
C10_SeverityMonotonic ==
    [][\A i \in 1..Len(Bullets) :
          /\ i <= Len(Bullets')
          /\ SeverityRank(Bullets'[i].severity) >= SeverityRank(Bullets[i].severity)
          /\ Bullets[i].severity = "critical" => Bullets'[i].severity = "critical"
          /\ Bullets'[i].severity # Bullets[i].severity =>
                \E k \in (Len(merged) + 1)..Len(merged') :
                    /\ merged'[k].severity = Bullets'[i].severity
                    /\ SeverityRank(merged'[k].severity) > SeverityRank(Bullets[i].severity)
      ]_vars

\* a critical bullet into which a bullet of lower severity was merged afterwards
C10_Witness ==
    \E i \in 1..Len(Bullets) :
        /\ Bullets[i].severity = "critical"
        /\ \E k \in 1..Len(merged) :
              /\ k > 1
              /\ SameFinding(merged[k], Bullets[i])
              /\ merged[k].severity = "moderate"
              /\ \E l \in 1..(k - 1) :
                    SameFinding(merged[l], Bullets[i]) /\ merged[l].severity = "critical"

\* the titles find_matching_bullet has compared so far
TitlesSeen == {merged[k].title : k \in 1..Len(merged)}

\* |A \cap B| / min(|A|, |B|) over the keyword sets A and B, 0 / 1 when one is empty
OverlapRatio(A, B) ==
    IF A = {} \/ B = {} THEN [num |-> 0, den |-> 1]
    ELSE [num |-> Cardinality(A \cap B),
          den |-> IF Cardinality(A) <= Cardinality(B) THEN Cardinality(A)
                  ELSE Cardinality(B)]

\* the titles the merge engine has met, each with its keyword set
KeywordsSeen == {<<t, Keywords(t)>> : t \in TitlesSeen}

\* C14: for all titles a, b the merge engine has met, the keyword overlap is
\* |A \cap B| / min(|A|, |B|) (0 when a set is empty), overlap(a, b) =
\* overlap(b, a), it lies in [0, 1], and it is 0 when the keyword sets are disjoint.
C14_OverlapSymmetricBounded ==
    LET seen == KeywordsSeen
    IN  \A a, b \in seen :
            LET r == KeywordOverlap(a[1], b[1])
                q == KeywordOverlap(b[1], a[1])
                d == OverlapRatio(a[2], b[2])
            IN  /\ r.den >= 1
                /\ r.num * d.den = d.num * r.den
                /\ r.num * q.den = q.num * r.den
                /\ 0 <= r.num /\ r.num <= r.den
                /\ a[2] \cap b[2] = {} => r.num = 0

\* titles of 2 and of 3 keywords sharing both, a pair sharing one keyword of
\* three, and a pair of disjoint non-empty keyword sets
C14_Witness ==
    /\ \E a, b \in TitlesSeen :
          /\ Cardinality(Keywords(a)) = 2 /\ Cardinality(Keywords(b)) = 3
          /\ Keywords(a) \subseteq Keywords(b)
    /\ \E a, b \in TitlesSeen :
          /\ KeywordOverlap(a, b).num = 1 /\ KeywordOverlap(a, b).den = 3
    /\ \E a, b \in TitlesSeen :
          /\ Keywords(a) # {} /\ Keywords(b) # {}
          /\ Keywords(a) \cap Keywords(b) = {}

\* C15: the keyword overlap of every title with itself is 1, and the playbook
\* never holds two bullets of identical category and title (the second is merged
\* into the first instead of being appended).
C15_IdenticalTitlesMerge ==
    /\ \A t \in TitlesSeen :
          KeywordOverlap(t, t).num = KeywordOverlap(t, t).den /\ KeywordOverlap(t, t).num > 0
    /\ \A i, j \in 1..Len(Bullets) :
          (Bullets[i].category = Bullets[j].category /\ Bullets[i].title = Bullets[j].title)
              => i = j

\* C16: after one curate call without benchmark data on the initial (empty)
\* playbook, the playbook holds exactly two bullets: a friction_log bullet whose
\* content is the root cause and a hard_strategy bullet whose content is the
\* suggested fix, both of the category of the insight.
C16_TwoBulletsPerInsight ==
    (/\ clock = 1
     /\ Len(merged) = 2
     /\ merged[1].bullet_type = "friction_log"
     /\ merged[2].bullet_type = "hard_strategy")
        => /\ Len(Bullets) = 2
           /\ Bullets[1].bullet_type = "friction_log"
           /\ Bullets[1].content = merged[1].content
           /\ Bullets[2].bullet_type = "hard_strategy"
           /\ Bullets[2].content = merged[2].content
           /\ Bullets[1].category = merged[1].category
           /\ Bullets[2].category = merged[1].category

(***************************************************************************)
(* Claims about save_playbook (SpecSave).                                  *)
(***************************************************************************)
\* C11: in every step of a save, crashes included, playbook.json stays what it
\* was or becomes the complete playbook being saved; it is never a partial
\* document.
C11_AtomicSave ==
    [][/\ Parseable(pbFile')
       /\ pbFile' = pbFile \/ (saveSt # <<>> /\ pbFile' = saveSt)
      ]_vars

\* a crash between the write of the temporary file and the rename: the temporary
\* file holds the whole new playbook, playbook.json still holds the one before
C11_Witness ==
    /\ saveSt = <<>>
    /\ tmpFile # <<>>
    /\ tmpFile[2] = Parts(tmpFile[1])
    /\ pbFile # Absent
    /\ Parseable(pbFile)
    /\ pbFile[1] # tmpFile[1]

(***************************************************************************)
(* Claims about the Sensing Pipeline (SpecThreshold, SpecSense).           *)
(***************************************************************************)
LogEntries == {sense.log[k] : k \in 1..Len(sense.log)}

InFlight(k) == k = Len(sense.log) /\ sense.pc \in {"frame", "visual"}

\* C12: a chunk whose result has a score of at most 0.6 (0.6 itself included) is
\* skipped; a chunk with a score above 0.6 goes on to frame extraction and,
\* unless a collaborator raises, its event is put on the queue; every event on
\* the queue comes from such a chunk and carries its score and the status
\* pending_reflection.
C12_StrictThreshold ==
    /\ \A k \in 1..Len(sense.log) :
          LET e == sense.log[k]
          IN  IF e.result.score > FRICTION_THRESHOLD
              THEN /\ e.state \in {"spike", "queued", "failed"}
                   /\ e.state = "spike" => InFlight(k)
                   /\ e.state = "queued"
                        => /\ e.event \in 1..Len(queue)
                           /\ queue[e.event].acoustic_data.score = e.result.score
                           /\ queue[e.event].acoustic_data.sentiment = e.result.sentiment
                           /\ queue[e.event].user_quote = e.result.quote
                           /\ queue[e.event].status = "pending_reflection"
              ELSE e.state = "skipped" /\ e.event = 0
    /\ \A i \in 1..Len(queue) :
          Cardinality({k \in 1..Len(sense.log) : sense.log[k].event = i}) = 1

\* one chunk with exactly 0.6 skipped, one chunk with 0.61 put on the queue
C12_Witness ==
    /\ \E e \in LogEntries : e.result.score = FRICTION_THRESHOLD /\ e.state = "skipped"
    /\ \E e \in LogEntries : e.result.score = FRICTION_THRESHOLD + 1 /\ e.state = "queued"
    /\ Len(queue) = 1

MaxOf(S) == CHOOSE x \in S : \A y \in S : y <= x

AcousticScore(utt) == MapEmotion(Get(utt.emotion, "Neutral")).score

MatchingPhrases(text) ==
    {k \in 1..Len(FRICTION_PHRASES) : IsSubstring(FRICTION_PHRASES[k].phrase, Lower(text))}

TextBestScore(text) ==
    MaxOf({FRICTION_PHRASES[k].score : k \in MatchingPhrases(text)} \cup {0})

Utterances(e) == Get(e.data[1].utterances, <<>>)

Transcript(e) == Get(e.data[1].text, EmptyStr)

Analysed == {e \in LogEntries : e.data # None}

\* the first utterance of the highest acoustic score
Winner(utts) ==
    CHOOSE i \in 1..Len(utts) :
        /\ \A j \in 1..Len(utts) : AcousticScore(utts[j]) <= AcousticScore(utts[i])
        /\ \A j \in 1..(i - 1) : AcousticScore(utts[j]) < AcousticScore(utts[i])

\* C13: for a reply with utterances, the result is the mapped emotion and the
\* text of the first highest-scoring utterance, unless the best phrase score of
\* the whole transcript is strictly greater; then score and sentiment are those
\* of a matching phrase of that score.
C13_TextOverride ==
    \A e \in Analysed :
        Utterances(e) # <<>> =>
            LET utts == Utterances(e)
                w == utts[Winner(utts)]
                t == TextBestScore(Transcript(e))
            IN  IF t > AcousticScore(w)
                THEN /\ e.result.score = t
                     /\ \E k \in MatchingPhrases(Transcript(e)) :
                           /\ FRICTION_PHRASES[k].score = t
                           /\ FRICTION_PHRASES[k].sentiment = e.result.sentiment
                ELSE /\ e.result.score = AcousticScore(w)
                     /\ e.result.sentiment = MapEmotion(Get(w.emotion, "Neutral")).sentiment
                     /\ e.result.quote = Get(w.text, EmptyStr)

\* an override by a phrase that is in the transcript but not in the text of the
\* winning utterance, and a tie on which the acoustic result was kept
C13_Witness ==
    /\ \E e \in Analysed :
          /\ Utterances(e) # <<>>
          /\ TextBestScore(Transcript(e)) > AcousticScore(Utterances(e)[Winner(Utterances(e))])
          /\ TextBestScore(Get(Utterances(e)[Winner(Utterances(e))].text, EmptyStr)) = 0
          /\ e.result.sentiment = "Frustrated"
          /\ e.result.score = TextBestScore(Transcript(e))
    /\ \E e \in Analysed :
          /\ Utterances(e) # <<>>
          /\ TextBestScore(Transcript(e)) = e.result.score
          /\ e.result.sentiment = "Confused"
          /\ MatchingPhrases(Transcript(e)) # {}
          /\ \A k \in MatchingPhrases(Transcript(e)) :
                FRICTION_PHRASES[k].sentiment = "Frustrated"

\* C18: for a reply without utterances, sentiment and score are those of the
\* best friction phrase of the transcript, and a phrase above the threshold
\* leads to a FrictionEvent.
C18_NoUtteranceFallback ==
    \A k \in 1..Len(sense.log) :
        LET e == sense.log[k]
        IN  (e.data # None /\ Utterances(e) = <<>>)
                => /\ e.result.score = TextBestScore(Transcript(e))
                   /\ TextBestScore(Transcript(e)) > FRICTION_THRESHOLD
                        => e.state \in {"spike", "queued", "failed"}

\* C19: for a reply without utterances whose transcript holds no friction
\* phrase, the result is Neutral with score 0 for the chunk analysed, the chunk
\* is skipped and no event on the queue comes from it.
C19_SilentChunkNoEvent ==
    \A e \in Analysed :
        (Utterances(e) = <<>> /\ MatchingPhrases(Transcript(e)) = {})
            => /\ e.result.sentiment = "Neutral"
               /\ e.result.score = 0
               /\ e.result.chunk_index = e.chunk
               /\ e.state = "skipped"
               /\ e.event = 0

\* a video of silent chunks only has been processed to its end: nothing queued
C19_Witness ==
    /\ sense.pc = "done"
    /\ sense.key
    /\ Len(sense.log) >= 2
    /\ \A e \in LogEntries :
          e.data # None /\ Utterances(e) = <<>> /\ MatchingPhrases(Transcript(e)) = {}
    /\ queue = <<>>

\* C20: without MODULATE_API_KEY the service is never called, every chunk gets
\* the placeholder (Neutral, 0, no quote), the analysis cannot raise, and no
\* event is put on the queue.
C20_NoKeyPlaceholder ==
    (sense.pc # "idle" /\ ~sense.key)
        => /\ queue = <<>>
           /\ \A e \in LogEntries :
                 /\ e.data = None
                 /\ e.result.sentiment = "Neutral"
                 /\ e.result.score = 0
                 /\ e.result.quote = EmptyStr
                 /\ e.result.chunk_index = e.chunk
                 /\ e.state = "skipped"
           /\ sense.pc = "analyze" => ~ENABLED CollaboratorRaises

\* without a key, both chunks of the upload analysed and the pipeline complete
C20_Witness ==
    /\ sense.pc = "done"
    /\ ~sense.key
    /\ Len(sense.log) = MaxChunks
    /\ queue = <<>>

(***************************************************************************)
(* Claims about the Progress Bus (SpecBus).                                *)
(***************************************************************************)
\* C21: publish is enabled in every state of the subscribers, and a publish
\* step appends the event to the queue of every registered subscriber holding
\* fewer than 256 events, leaves a queue of 256 events as it is, and changes
\* nothing else of the subscribers.
C21_PublishNeverBlocks ==
    [][/\ bus.published - bus.start < MaxPublish => ENABLED Publish
       /\ bus'.published # bus.published =>
             /\ bus'.published = bus.published + 1
             /\ bus'.subs = bus.subs
             /\ bus'.got = bus.got
             /\ \A id \in SubIds :
                   bus'.q[id] =
                       IF id \in Live(bus) /\ Len(bus.q[id]) < QUEUE_MAXSIZE
                       THEN Append(bus.q[id], bus'.published)
                       ELSE bus.q[id]
      ]_vars

\* an event dropped for a subscriber of 256 pending events and delivered to
\* another subscriber
C21_Witness ==
    \E a, b \in Live(bus) :
        /\ a # b
        /\ Len(bus.q[a]) = QUEUE_MAXSIZE
        /\ bus.q[a][QUEUE_MAXSIZE] < bus.published
        /\ bus.since[b] < bus.published
        /\ bus.published \in Range(bus.q[b])

Increasing(seq) == \A i \in 1..(Len(seq) - 1) : seq[i] < seq[i + 1]

\* C22: what a subscriber has received, followed by what waits in its queue, is
\* in publish order without repetition and holds only events published after it
\* registered; an event published since then that a connected subscriber has
\* neither received nor pending was dropped on a queue of 256 events.
C22_OrderPerSubscriber ==
    \A id \in bus.reg :
        /\ Increasing(bus.got[id])
        /\ Range(bus.got[id]) \subseteq (bus.since[id] + 1)..bus.published
        /\ id \in Live(bus) =>
              /\ Increasing(bus.got[id] \o bus.q[id])
              /\ \A e \in (bus.since[id] + 1)..bus.published :
                    \/ e \in Range(bus.got[id] \o bus.q[id])
                    \/ [sub |-> id, event |-> e, qsize |-> QUEUE_MAXSIZE] \in bus.dropped

\* a subscriber that has received events and missed the latest one, and a later
\* subscriber that received every event published since it registered
C22_Witness ==
    /\ \E id \in Live(bus) :
          /\ bus.got[id] # <<>>
          /\ [sub |-> id, event |-> bus.published, qsize |-> QUEUE_MAXSIZE] \in bus.dropped
    /\ \E id \in Live(bus) :
          /\ bus.since[id] > 0
          /\ Len(bus.got[id]) >= 2
          /\ Range(bus.got[id]) = (bus.since[id] + 1)..bus.published

(***************************************************************************)
(* Claims about search_benchmarks (SpecResearch).                          *)
(***************************************************************************)
Returned == research.pc = "returned"

\* the call gave up waiting: it left the loop on polls > max_polls
GaveUp == research.polls > MAX_POLLS

\* C23: search_benchmarks issues at most 15 polling requests, none when the
\* create response is already completed or failed; when the task is still
\* pending after the 15th it returns {} without another request; and every call
\* eventually returns.
C23_BoundedPolling ==
    /\ [](/\ research.gets <= MAX_POLLS
          /\ (research.first # <<>> /\ ~Pending(research.first[1])) => research.gets = 0
          /\ GaveUp => /\ research.gets = MAX_POLLS
                       /\ research.pc \in {"close_timeout", "returned"}
                       /\ Returned => research.result = <<EmptyResult>>)
    /\ <>Returned

\* the call has returned {} after 15 polls of a task that never finished
C23_Witness ==
    /\ Returned
    /\ GaveUp
    /\ research.gets = MAX_POLLS
    /\ ~research.raised
    /\ research.result = <<EmptyResult>>

\* C24: search_benchmarks always ends by returning a mapping: {} without any
\* call to the service when no key is configured, {} when the task failed, {}
\* when a call raised; a mapping of source, recommendation and examples only
\* when the last status of the task is completed.
C24_NeverRaises ==
    /\ research.pc # "raised"
    /\ ~research.key /\ research.pc # "idle" =>
          Returned /\ research.calls = 0 /\ research.result = <<EmptyResult>>
    /\ Returned =>
          /\ research.raised => research.result = <<EmptyResult>>
          /\ (research.status # <<>> /\ research.status[1].status = Some("failed"))
                => research.result = <<EmptyResult>>
          /\ research.result # <<EmptyResult>> =>
                /\ research.status[1].status = Some("completed")
                /\ ~research.result[1].empty
                /\ research.result[1].source # EmptyStr
                /\ research.result[1].recommendation \in {EmptyStr, T_ShowMenu}

\* a completed task gave a recommendation after polling, and nothing raised
C24_Witness ==
    /\ Returned
    /\ research.gets >= 1
    /\ ~research.raised
    /\ research.result # <<EmptyResult>>
    /\ research.result[1].recommendation = T_ShowMenu

(***************************************************************************)
(* Claims about failures in the Sensing Pipeline (SpecSense).              *)
(***************************************************************************)
\* the chunks of the upload process_all has not come to: those after the
\* current chunk in the current video, and those of the videos after it
ChunksLeft ==
    IF sense.pc = "idle" THEN 0
    ELSE LET here == IF sense.plan[sense.video] > sense.chunk + 1
                     THEN sense.plan[sense.video] - (sense.chunk + 1) ELSE 0
             later == {v \in 1..Len(sense.plan) : v > sense.video /\ sense.plan[v] > 0}
         IN  here + Cardinality(later)

\* C25: when process_all has stopped, also after a chunk whose analysis, frame
\* extraction or visual diagnosis raised, no chunk of the video and no video of
\* the upload is left unprocessed.
C25_ChunkFailureIsolated ==
    sense.pc \in {"done", "aborted"} => ChunksLeft = 0

(***************************************************************************)
(* Claims about the life of one event (Spec).                              *)
(***************************************************************************)
\* queued -> diagnosing -> curated -> enriching -> done, error from diagnosing
\* only: curated and enriching are one state of the worker, which does not
\* suspend between curate and asyncio.gather; "error" is a diagnosis that raised
EventMachine ==
    {<<"none", "queued">>, <<"queued", "diagnosing">>, <<"diagnosing", "enriching">>,
     <<"diagnosing", "error">>, <<"enriching", "done">>}

\* C26: leaving cancellation aside, every change of state of an event is a step
\* of queued -> diagnosing -> curated/enriching -> done or the step from
\* diagnosing to error made by a failed diagnosis; an event whose diagnosis
\* succeeded is never dropped by a failure of curation.
C26_EventStateMachine ==
    [][pc' # "stopped" =>
          \A e \in EventIds :
              status'[e] # status[e] => <<status[e], status'[e]>> \in EventMachine
      ]_vars

(***************************************************************************)
(* Claims about the mockup of an event (Spec).                             *)
(***************************************************************************)
BulletsOf(file) == LoadPlaybook(file, 0).bullets

\* the ids of the bullets that were appended for the event in hand
NewBulletIds ==
    {BulletsOf(pbFile)[i].id : i \in 1..Len(BulletsOf(pbFile))}
        \ {BulletsOf(pbAtGet)[i].id : i \in 1..Len(BulletsOf(pbAtGet))}

\* C27: the step that ends do_mockup either writes the mockup URL of the event
\* into every bullet whose frame_url is the frame URL of the event, changes no
\* other bullet and no other field, and saves the playbook; or, when the event
\* has no frame or the generation failed, leaves playbook.json as it is, the
\* bullets appended for the event keeping an empty mockup_url.
C27_MockupWriteBack ==
    [][(tasks["mockup"] = "ready" /\ tasks'["mockup"] # "ready" /\ pc' = "gather") =>
          LET old == BulletsOf(pbFile)
              new == BulletsOf(pbFile')
          IN  IF tasks'["mockup"] = "ok" /\ pbFile' # pbFile
              THEN /\ FrameUrl(cur) # EmptyStr
                   /\ Len(new) = Len(old)
                   /\ \A i \in 1..Len(old) :
                         new[i] = IF old[i].frame_url = FrameUrl(cur)
                                  THEN [old[i] EXCEPT !.mockup_url = MockupUrl(cur)]
                                  ELSE old[i]
              ELSE /\ pbFile' = pbFile
                   /\ tasks'["mockup"] \in {"failed", "skipped"} =>
                         \A i \in 1..Len(new) :
                             new[i].id \in NewBulletIds => new[i].mockup_url = EmptyStr
      ]_vars

\* the mockup of the second event was written into its two bullets while the
\* bullets of the first event, which had no frame, keep an empty mockup_url
C27_Witness ==
    /\ pc = "gather"
    /\ tasks["mockup"] = "ok"
    /\ Len(Bullets) = 4
    /\ \A i \in 1..2 : Bullets[i].frame_url = EmptyStr /\ Bullets[i].mockup_url = EmptyStr
    /\ \A i \in 3..4 :
          Bullets[i].frame_url = FrameUrl(cur) /\ Bullets[i].mockup_url = MockupUrl(cur)

(***************************************************************************)
(* Claims about matching and the order of merges (SpecMatch).              *)
(***************************************************************************)
\* the playbook after merging the bullets bs, in the order f, into an empty one
MergedInOrder(bs, f) ==
    MergeAll(EmptyPlaybook(0), [i \in 1..Len(bs) |-> bs[f[i]]], Len(bs), 0)

\* of a playbook: how many bullets carry each (friction_count, evidence count,
\* severity)
Tally(pb) ==
    LET key(b) == <<b.friction_count, Len(b.evidence), b.severity>>
        keys == {key(pb.bullets[i]) : i \in 1..Len(pb.bullets)}
    IN  [k \in keys |-> Cardinality({i \in 1..Len(pb.bullets) : key(pb.bullets[i]) = k})]

\* C28: merged in any other order into an empty playbook, the bullets merged so
\* far give as many bullets as the playbook holds, with the same friction
\* counts, evidence counts and severities.
C28_OrderIndependent ==
    \A f \in Permutations(1..Len(merged)) :
        LET other == MergedInOrder(merged, f)
        IN  /\ Len(other.bullets) = Len(Bullets)
            /\ Tally(other) = Tally(LoadPlaybook(pbFile, 0))

\* the bullets of the playbook the title and category of nb match: same
\* category, more than 3/5 of the keywords of the shorter title shared
Hits(bullets, nb) ==
    {i \in 1..Len(bullets) :
        /\ bullets[i].category = nb.category
        /\ LET A == Keywords(bullets[i].title)
               B == Keywords(nb.title)
           IN  /\ A # {} /\ B # {}
               /\ 5 * Cardinality(A \cap B) > 3 * Min(Cardinality(A), Cardinality(B))}

\* C30: a merge appends the new bullet exactly when no bullet of the playbook
\* has its category and a title overlap strictly above 0.6 with its title;
\* otherwise the first such bullet in playbook order, whatever its type, takes
\* the count and the evidence of the new bullet and no other bullet changes.
C30_MatchRule ==
    [][Len(merged') = Len(merged) + 1 =>
          LET nb == merged'[Len(merged')]
              old == Bullets
              new == Bullets'
              hits == Hits(old, nb)
          IN  IF hits = {}
              THEN new = Append(old, nb)
              ELSE LET first == CHOOSE i \in hits : \A j \in hits : i <= j
                   IN  /\ Len(new) = Len(old)
                       /\ \A i \in 1..Len(old) : i # first => new[i] = old[i]
                       /\ new[first].friction_count = old[first].friction_count + 1
                       /\ new[first].evidence = old[first].evidence \o nb.evidence
                       /\ new[first].bullet_type = old[first].bullet_type
                       /\ new[first].title = old[first].title
      ]_vars

\* two bullets whose titles overlap by exactly 0.6 stand side by side, and a
\* hard_strategy bullet matching both was merged into the first of them, a
\* friction_log bullet
C30_Witness ==
    /\ Len(merged) = 3
    /\ Len(Bullets) = 2
    /\ Bullets[1].title = T_Prose /\ Bullets[2].title = T_Quote
    /\ KeywordOverlap(T_Prose, T_Quote) = [num |-> 3, den |-> 5]
    /\ merged[3].title = T_MenuHidden /\ merged[3].bullet_type = "hard_strategy"
    /\ Hits(<<merged[1], merged[2]>>, merged[3]) = {1, 2}
    /\ Bullets[1].bullet_type = "friction_log"
    /\ Bullets[1].friction_count = 2 /\ Bullets[2].friction_count = 1

(***************************************************************************)
(* Claims about the progress of the worker (SpecLive).                     *)
(***************************************************************************)
\* the event has left the worker: enriched, or dropped by the except clause
Ended(e) == status[e] \in {"done", "error", "curate_error"}

\* C29: while the application is not shut down the worker never stops, whatever
\* raises, and every event put on the queue is eventually dequeued and
\* eventually done or in error.
\* (an event is put once and its status never goes back, so "again and again
\* never put or ended" says that it ends once it was put; it ends only after
\* the worker has taken it from the queue)
C29_WorkerProgress ==
    /\ [](pc # "stopped")
    /\ [](\A e \in EventIds : Ended(e) => \E k \in 1..Len(deqLog) : deqLog[k] = e)
    /\ \A e \in EventIds : []<>(status[e] = "none" \/ Ended(e))

\* an event has been dropped by a failed diagnosis and the event put after it
\* has been dequeued and is done
C29_Witness ==
    /\ Len(enqLog) = 2
    /\ StatusOf(1) \in {"error", "curate_error"}
    /\ StatusOf(2) = "done"
    /\ pc = "get"

(***************************************************************************)
(* Claims about the fields of a merged bullet (SpecMerge).                 *)
(***************************************************************************)
\* the step merged exactly one bullet, into an existing bullet
OneMerge == Len(merged') = Len(merged) + 1 /\ Len(Bullets') = Len(Bullets)

\* the bullet merged by a step of OneMerge
MergedNow == merged'[Len(merged')]

\* C31: a merge extends the content of the existing bullet with " | " and the
\* new content when the new content is not a substring of it, and leaves the
\* content as it is otherwise; no other bullet's content changes.
C31_ContentExtendedOnce ==
    [][OneMerge =>
          \E i \in 1..Len(Bullets) :
              /\ Bullets'[i].friction_count = Bullets[i].friction_count + 1
              /\ Bullets'[i].content =
                    IF IsSubstring(MergedNow.content, Bullets[i].content)
                    THEN Bullets[i].content
                    ELSE Bullets[i].content \o <<" ", "|", " ">> \o MergedNow.content
              /\ \A j \in 1..Len(Bullets) : j # i => Bullets'[j].content = Bullets[j].content
      ]_vars

\* a bullet extended once with a new content and then merged again with the
\* content it started with
C31_Witness ==
    /\ Len(merged) = 3
    /\ Len(Bullets) = 1
    /\ merged[2].content # merged[1].content
    /\ merged[3].content = merged[1].content
    /\ Bullets[1].content = merged[1].content \o <<" ", "|", " ">> \o merged[2].content

\* the step is a completed POST /playbook/clear
Cleared == curation'.clears = curation.clears + 1

\* C32: a merge leaves id, bullet_type, category, title, created_at and
\* benchmark_source of the existing bullet as they are, never overwrites a
\* non-empty frame_url or mockup_url (an empty one takes the URL of the merged
\* bullet), changes no other bullet, and removes or reorders none; bullets
\* disappear only by a clear of the playbook.
C32_MergeFrame ==
    [][\/ Cleared /\ Bullets' = <<>>
       \/ /\ ~Cleared
          /\ Len(Bullets') >= Len(Bullets)
          /\ \A i \in 1..Len(Bullets) :
                LET old == Bullets[i]
                    new == Bullets'[i]
                IN  /\ new.id = old.id
                    /\ new.bullet_type = old.bullet_type
                    /\ new.category = old.category
                    /\ new.title = old.title
                    /\ new.created_at = old.created_at
                    /\ new.benchmark_source = old.benchmark_source
                    /\ old.frame_url # EmptyStr => new.frame_url = old.frame_url
                    /\ old.mockup_url # EmptyStr => new.mockup_url = old.mockup_url
                    /\ new # old =>
                          /\ OneMerge
                          /\ new.frame_url \in {old.frame_url, MergedNow.frame_url}
                          /\ new.mockup_url \in {old.mockup_url, MergedNow.mockup_url}
                          /\ \A j \in 1..Len(Bullets) : j # i => Bullets'[j] = Bullets[j]
      ]_vars

\* after a clear, a bullet that holds both URLs has been merged with a bullet
\* of another type, source and URLs, and has kept its own
C32_Witness ==
    /\ curation.clears = 1
    /\ Len(merged) = 2
    /\ Len(Bullets) = 1
    /\ Bullets[1].friction_count = 2
    /\ merged[1].frame_url # EmptyStr /\ merged[2].frame_url \notin {EmptyStr, merged[1].frame_url}
    /\ merged[1].mockup_url # EmptyStr /\ merged[2].mockup_url \notin {EmptyStr, merged[1].mockup_url}
    /\ merged[2].bullet_type # merged[1].bullet_type
    /\ Bullets[1].id = merged[1].id

(***************************************************************************)
(* Claims about the order of the events of an upload (SpecThreshold).      *)
(***************************************************************************)
\* chunk a comes before chunk b in the upload
ChunkBefore(a, b) == a.video < b.video \/ (a.video = b.video /\ a.chunk < b.chunk)

\* C33: events are streamed: while a chunk or the audio of a video is being
\* analysed, the event of every earlier chunk above the threshold is already on
\* the queue; the chunks are analysed in the order of the upload, video after
\* video, and their events stand on the queue in that order.
C33_Streamed ==
    /\ sense.pc \in {"audio", "analyze", "done"} =>
          \A k \in 1..Len(sense.log) :
              IsFrictionSpike(sense.log[k].result.score) =>
                  /\ sense.log[k].state = "queued"
                  /\ sense.log[k].event \in 1..Len(queue)
                  /\ queue[sense.log[k].event].user_quote = sense.log[k].result.quote
                  /\ queue[sense.log[k].event].acoustic_data.score = sense.log[k].result.score
    /\ sense.pc = "analyze" =>
          \A k \in 1..Len(sense.log) :
              ChunkBefore(sense.log[k], [video |-> sense.video, chunk |-> sense.chunk])
    /\ \A k, l \in 1..Len(sense.log) :
          k < l => /\ ChunkBefore(sense.log[k], sense.log[l])
                   /\ (sense.log[k].state = "queued" /\ sense.log[l].state = "queued")
                          => sense.log[k].event < sense.log[l].event

\* two videos of one chunk each: the event of the first video is on the queue
\* before the event of the second
C33_Witness ==
    /\ sense.pc = "done"
    /\ Len(sense.log) = 2
    /\ sense.log[1].video = 1 /\ sense.log[1].state = "queued" /\ sense.log[1].event = 1
    /\ sense.log[2].video = 2 /\ sense.log[2].state = "queued" /\ sense.log[2].event = 2
    /\ sense.log[1].result.score # sense.log[2].result.score
    /\ Len(queue) = 2

(***************************************************************************)
(* Claims about the playbook operations of the event loop (SpecShared).    *)
(***************************************************************************)
\* C34: while a curate call is in progress no clear and no read takes place and
\* the file is written by its merges only; the playbook object each of its
\* merges starts from is the persisted one; and after a clear no bullet created
\* before the clear is written back.
C34_NoLostUpdate ==
    /\ [](curation.pc = "merging" =>
             curation.playbook[1].bullets = LoadPlaybook(pbFile, curation.now).bullets)
    /\ [](\A i \in 1..Len(Bullets) : Bullets[i].created_at > curation.cleared_at)
    /\ [][curation.pc = "merging" =>
             /\ curation'.clears = curation.clears
             /\ curation'.read = curation.read
             /\ pbFile' # pbFile => /\ Len(merged') = Len(merged) + 1
                                    /\ MergedNow = Head(curation.todo)
         ]_vars

\* a curate call of two merges, a read, a clear, and a curate call of three
\* merges after the clear
C34_Witness ==
    /\ curation.pc = "idle"
    /\ curation.clears = 1 /\ curation.cleared_at = 2
    /\ curation.read # <<>> /\ Len(curation.read[1]) = 2
    /\ Len(merged) = 5
    /\ Len(Bullets) = 3

(***************************************************************************)
(* Claims about the registry of subscribers (SpecBus).                     *)
(***************************************************************************)
\* C35: _subscribers holds, once each, the queues of the subscribers whose
\* stream has started and has not ended; a queue enters it only when its
\* stream starts and never comes back after it left; publish puts nothing on
\* a queue that is not in it; and no queue holds more than 256 events.
C35_RegistryExact ==
    /\ [](/\ Live(bus) = bus.reg \ bus.ended
          /\ Len(bus.subs) = Cardinality(Live(bus))
          /\ \A id \in SubIds : Len(bus.q[id]) <= 256)
    /\ [][/\ \A id \in Live(bus') \ Live(bus) : id \notin bus.reg /\ bus'.q[id] = <<>>
          /\ \A id \in SubIds \ Live(bus) : id \in Live(bus') \/ bus'.q[id] = bus.q[id]
         ]_vars

\* one subscriber holds 256 pending events; another one has disconnected, and
\* the event published after that is not on its queue
C35_Witness ==
    /\ \E a \in Live(bus) : Len(bus.q[a]) = 256
    /\ \E b \in bus.ended :
          /\ bus.since[b] < bus.published
          /\ bus.q[b] = <<>> /\ bus.got[b] = <<>>

(***************************************************************************)
(* Claims about the occurrences an event contributes (Spec).               *)
(***************************************************************************)
\* the evidence entries of event id in the bullets of type t
Occurrences(id, t) == {p \in EvidencePlaces(id) : Bullets[p[1]].bullet_type = t}

\* the events that stand in the evidence of bullet b
EventsIn(b) == {b.evidence[n].timestamp : n \in 1..Len(b.evidence)}

\* C36: an event that is done stands exactly once in the evidence of the
\* friction_log bullets and exactly once in that of the hard_strategy bullets,
\* and such a bullet counts each of its events once, with or without a
\* recommendation from benchmark research.
C36_OneOccurrencePerEvent ==
    /\ \A e \in EventIds :
          status[e] = "done" =>
              /\ Cardinality(Occurrences(e, "friction_log")) = 1
              /\ Cardinality(Occurrences(e, "hard_strategy")) = 1
    /\ pc = "get" =>
          \A i \in 1..Len(Bullets) :
              Bullets[i].bullet_type \in {"friction_log", "hard_strategy"} =>
                  Bullets[i].friction_count = Cardinality(EventsIn(Bullets[i]))

(***************************************************************************)
(* Claims about the counts of the playbook (SpecMerge).                    *)
(***************************************************************************)
RECURSIVE SumCounts(_)
SumCounts(bs) == IF bs = <<>> THEN 0 ELSE Head(bs).friction_count + SumCounts(Tail(bs))

\* C37: in every playbook built by merges from the empty playbook each bullet's
\* friction_count is the length of its evidence list, and the friction_counts
\* add up to the number of bullets merged so far.
C37_CountsAddUp ==
    /\ \A i \in 1..Len(Bullets) : Bullets[i].friction_count = Len(Bullets[i].evidence)
    /\ SumCounts(Bullets) = Len(merged)

\* curate calls that merged at least five bullets into at least two bullets,
\* one of which was merged into twice
C37_Witness ==
    /\ Len(merged) >= 5
    /\ Len(Bullets) >= 2
    /\ \E i \in 1..Len(Bullets) :
          /\ Bullets[i].friction_count = 3
          /\ Bullets[i].evidence[1] = Bullets[i].evidence[2]

(***************************************************************************)
(* Claims about the queue's count of unfinished events (Spec).             *)
(***************************************************************************)
\* the events whose processing has ended: done, dropped by the except clause,
\* or cancelled while the worker held them
Over == {e \in EventIds : status[e] \in {"done", "error", "curate_error",
                                          "cancelled_diagnosing", "cancelled_enriching"}}

\* C38: the queue's count of unfinished events is the number of events put
\* minus the number of events whose processing has ended, on every path, and
\* never negative; it goes down by one exactly in the step that ends an event.
C38_TaskDoneOnce ==
    /\ [](unfinished = Len(enqLog) - Cardinality(Over) /\ unfinished >= 0)
    /\ [][/\ unfinished' < unfinished =>
                /\ unfinished' = unfinished - 1
                /\ cur.event_id \in Over' \ Over
          /\ Over \subseteq Over'
         ]_vars

\* one event dropped by an error, the next one cancelled during its enrichment
C38_Witness ==
    /\ pc = "stopped"
    /\ Len(enqLog) = 2
    /\ StatusOf(1) \in {"error", "curate_error"}
    /\ StatusOf(2) = "cancelled_enriching"
    /\ unfinished = 0

(***************************************************************************)
(* Claims about the memory enrichment task (Spec).                         *)
(***************************************************************************)
\* C39: the memory task reports a failure only when the store raised: it never
\* ends as failed after the insight was stored ("ok" is the end in which the
\* "learning" event was published).
C39_LearningPublished == tasks["memory"] # "stored_failed"

====
